---- MODULE Spec2Model ----
(***************************************************************************)
(* Model of the sentinel-tower metagraph engine: epoch arithmetic          *)
(* (apps/metagraph/utils.py), the epoch-start enumeration of the backfill  *)
(* command, the API-era boundary detection of collect_apy, the connection  *)
(* retry loop and the batch task of apps/metagraph/tasks.py, and the two   *)
(* sync services that merge a metagraph snapshot into the relational       *)
(* store inside one transaction.                                           *)
(*                                                                         *)
(* Conventions: None/NULL is 0 for times and ids (real ids and times are   *)
(* >= 1); a Python exception is a record field "raised"; a table is a set  *)
(* of rows, each row a record of the columns the code reads or writes.     *)
(***************************************************************************)
EXTENDS Integers, Sequences, FiniteSets, TLC

\* ------------------------------------------------------------- bounds
MaxTempo == 5       \* settings.TEMPO ranges over 1..MaxTempo
MaxDumps == 3       \* settings.NUM_BLOCK_DUMPS_PER_EPOCH ranges over 1..MaxDumps
MaxBlock == 11      \* block numbers of the epoch / boundary models: 0..MaxBlock
MaxNetuid == 2      \* netuids of the epoch model: 0..MaxNetuid

MaxRetries == 4     \* the max_retries argument ranges over 0..MaxRetries

MaxNeurons == 1     \* neuron records of one metagraph snapshot: 0..MaxNeurons
MaxItems == 2       \* (block, netuid) items of one batch task: 1..MaxItems
MaxCalls == 2       \* sync_metagraph calls of one behaviour

MaxValue == 1       \* hyperparameter values: 0..MaxValue
MaxEnrich == 3      \* enrichment calls of one behaviour

MaxTao == 2         \* emission and stake arguments, in TAO: -1..MaxTao

MaxWrites == 3      \* write calls inside one StorageWriter context
MaxData == 2        \* bytes of one write call: 0..MaxData
MaxBuffer == 3      \* the buffersize argument: 1..MaxBuffer

MaxWorkers == 3     \* workers, each with a FlockLock object of its own
MaxTime == 2        \* readings of time.perf_counter(): 0..MaxTime
MaxTimeout == 1     \* the timeout argument of acquire: 0..MaxTimeout

MaxProcs == 2       \* processes that call update_hyperparam at the same time

MaxCollect == 3     \* epoch blocks of one collect_apy run: blocks 1..MaxCollect

\* ------------------------------------------------- program constants
SUBTENSOR_CONNECTION_RETRIES == 3
SUBTENSOR_CONNECTION_BACKOFF == 5
TAO_TO_RAO == 1000000000
BLOCKS_PER_YEAR == 2629800

\* ------------------------------------------------------ chain values
Hotkeys == {"hk1", "hk2"}
Coldkeys == {"ck1", "ck2"}
Uids == {7, 9}
SyncBlocks == {1, 2}      \* block numbers of the synced items
SyncNetuids == {1}
Dividends == {0, 1}       \* normalized dividend share of a neuron
Incentives == {0}

VARIABLES
    settings,   \* django settings read by utils.py: TEMPO, NUM_BLOCK_DUMPS_PER_EPOCH
    ep,         \* the running _get_epoch_start_blocks_in_range / is_dumpable_block call
    det,        \* the running _detect_api_boundary call
    retry,      \* the running _create_subtensor_with_retry call
    db,         \* the relational store (committed rows)
    seq,        \* the store's id sequence; a rollback does not rewind it
    svc,        \* the sync service object of the running task: its caches
    task,       \* the running task: fast_apy_sync_batch, fast_apy_sync, store_metagraph
    now,        \* the clock: timezone.now() / datetime.now(UTC)
    hist,       \* history of the calls made, read only by the properties
    disp,       \* the block dumper: the chain head it has seen, the tasks it dispatched
    hp,         \* SubnetHyperparam and SubnetHyperparamHistory, and the last enrichment
    apy,        \* the last _compute_dividend_apy call: its arguments and result
    sw,         \* a StorageWriter, the storage backend under it, the bytes written
    lk,         \* the FlockLock objects of the workers, the flock table, the clock
    cu,         \* concurrent update_hyperparam calls and the tables they share
    col         \* the running collect_apy _collect call: its counters and queries

syncVars == <<db, seq, svc, task, now, hist>>
tailVars == <<cu, col>>
extVars == <<disp, hp, apy, sw, lk, tailVars>>
extOfApy == <<disp, hp, sw, lk, tailVars>>

\* ------------------------------------------------------------- utils.py
\* A Python range(start, stop) is the record [start, stop].
get_epoch_duration(tempo) == tempo + 1

block_index_in_epoch(block, netuid, tempo) ==
    (block + netuid + 2) % get_epoch_duration(tempo)

get_blocks_until_next_epoch(block_number, netuid, tempo) ==
    LET index == block_index_in_epoch(block_number, netuid, tempo)
    IN  IF index = 0 THEN 0 ELSE get_epoch_duration(tempo) - index

\* get_next_epoch_block without the `or get_epoch_duration(tempo)` fallback.
next_epoch_block_without_fallback(block, netuid, tempo) ==
    block + get_blocks_until_next_epoch(block, netuid, tempo)

\* `x or y` of Python: y when x is 0.
get_next_epoch_block(block, netuid, tempo) ==
    LET until == get_blocks_until_next_epoch(block, netuid, tempo)
    IN  block + (IF until # 0 THEN until ELSE get_epoch_duration(tempo))

get_epoch_containing_block(block, netuid) ==
    LET next_epoch_block == get_next_epoch_block(block, netuid, settings.TEMPO)
    IN  [start |-> next_epoch_block - get_epoch_duration(settings.TEMPO),
         stop  |-> next_epoch_block]

\* get_dumpable_blocks without the injected end of the epoch.
dumpable_blocks_without_end(epoch) ==
    LET num == settings.NUM_BLOCK_DUMPS_PER_EPOCH
    IN  [i \in 1..num |-> (epoch.start * num + settings.TEMPO * (i - 1)) \div num]

\* get_dumpable_blocks with the step floored before it is multiplied.
dumpable_blocks_floored_step(epoch) ==
    LET num == settings.NUM_BLOCK_DUMPS_PER_EPOCH
    IN  Append([i \in 1..num |-> epoch.start + (settings.TEMPO \div num) * (i - 1)],
               epoch.start + settings.TEMPO)

\* floor(epoch.start + (TEMPO / NUM) * i): the float product is exact for the
\* tempo and dump counts of this model, so the floor is the integer floor of
\* the rational (\div rounds toward minus infinity, like math.floor).
get_dumpable_blocks(epoch) ==
    LET num    == settings.NUM_BLOCK_DUMPS_PER_EPOCH
        ranges == [i \in 1..num |->
                     (epoch.start * num + settings.TEMPO * (i - 1)) \div num]
        end_epoch == epoch.start + settings.TEMPO
    IN  Append(ranges, end_epoch)

SeqRange(s) == {s[i] : i \in DOMAIN s}

\* metagraph_service.py: block_number in dumpable_blocks
is_dumpable_block(block_number, netuid) ==
    LET epoch == get_epoch_containing_block(block_number, netuid)
        dumpable_blocks == get_dumpable_blocks(epoch)
    IN  block_number \in SeqRange(dumpable_blocks)

\* tasks.py / block_tasks.py / fast_backfill.py: _get_epoch_position_str
get_epoch_position_str(block_number, netuid) ==
    LET epoch == get_epoch_containing_block(block_number, netuid)
        dumpable_blocks == get_dumpable_blocks(epoch)
    IN  IF block_number = dumpable_blocks[1] THEN "start"
        ELSE IF block_number = dumpable_blocks[Len(dumpable_blocks)] THEN "end"
        ELSE "inside"

\* sorted(set): the ascending sequence of a finite set of integers.
RECURSIVE sorted(_)
sorted(S) ==
    IF S = {} THEN <<>>
    ELSE LET m == CHOOSE x \in S : \A y \in S : x <= y
         IN  <<m>> \o sorted(S \ {m})

\* list(range(first, stop, step)) for a positive step.
RECURSIVE range_list(_, _, _)
range_list(first, stop, step) ==
    IF first >= stop THEN <<>>
    ELSE <<first>> \o range_list(first + step, stop, step)

\* collect_apy.py, lines 61-69: the blocks of [start, end] at which the
\* epoch fires, by (block + netuid + 1) % (tempo + 1) == 0.
compute_epoch_blocks(netuid, tempo, start, end) ==
    LET period == tempo + 1
        remainder == (start + netuid + 1) % period
        first == IF remainder = 0 THEN start ELSE start + (period - remainder)
    IN  range_list(first, end + 1, period)

\* ------------------------------------------- fast_backfill.py, lines 108-127
\* ep.pc: "idle" (no call), "loop" (at the while test), "done" (returned).
EpIdle == [pc |-> "idle", from_block |-> 0, to_block |-> 0, netuid |-> 0,
           current_block |-> 0, epoch_starts |-> {}, result |-> <<>>,
           query |-> 0, dumpable |-> FALSE]

\* Entry of _get_epoch_start_blocks_in_range(from_block, to_block, netuid).
EnumCall ==
    /\ ep.pc = "idle"
    /\ \E f \in 0..MaxBlock, t \in 0..MaxBlock, n \in 0..MaxNetuid :
         /\ f <= t
         /\ ep' = [EpIdle EXCEPT !.pc = "loop", !.from_block = f, !.to_block = t,
                                 !.netuid = n, !.current_block = f]
    /\ UNCHANGED <<extVars, settings, det, retry, syncVars>>

\* One iteration of the while loop.
EnumLoopBody(e) ==
    LET epoch == get_epoch_containing_block(e.current_block, e.netuid)
        epoch_start == epoch.start
    IN  [e EXCEPT !.epoch_starts =
                      IF e.from_block <= epoch_start /\ epoch_start <= e.to_block
                      THEN @ \cup {epoch_start} ELSE @,
                  !.current_block = epoch.stop + 1]

EnumStep ==
    /\ ep.pc = "loop"
    /\ ep.current_block <= ep.to_block
    /\ ep' = EnumLoopBody(ep)
    /\ UNCHANGED <<extVars, settings, det, retry, syncVars>>

\* The while test fails: return sorted(epoch_starts).
EnumReturn ==
    /\ ep.pc = "loop"
    /\ ~(ep.current_block <= ep.to_block)
    /\ ep' = [ep EXCEPT !.pc = "done", !.result = sorted(ep.epoch_starts)]
    /\ UNCHANGED <<extVars, settings, det, retry, syncVars>>

\* MetagraphService.is_dumpable_block(block_number, netuid), the condition of
\* the store_metagraph and sync_apy_data block tasks.
DumpableCall ==
    /\ ep.pc = "idle"
    /\ \E b \in 0..MaxBlock, n \in 0..MaxNetuid :
         ep' = [EpIdle EXCEPT !.pc = "checked", !.query = b, !.netuid = n,
                              !.dumpable = is_dumpable_block(b, n)]
    /\ UNCHANGED <<extVars, settings, det, retry, syncVars>>

\* ------------------------------------------- collect_apy.py, lines 72-115
\* The provider: subtensor.get_metagraph_info(netuid, block) of a chain whose
\* modern query works exactly at blocks >= det.T. Below T the call either
\* raises or returns None; both are outcomes the code handles.
ProbeOutcomes(block, T) == IF block >= T THEN {"info"} ELSE {"raise", "none"}

NoResult == [kind |-> "unset", block |-> 0]
ResNone == [kind |-> "None", block |-> 0]
ResBlock(b) == [kind |-> "block", block |-> b]

DetIdle == [pc |-> "idle", start_block |-> 0, end_block |-> 0, T |-> 0,
            lo |-> 0, hi |-> 0, probes |-> 0, result |-> NoResult]

DetectCall ==
    /\ det.pc = "idle"
    /\ \E s \in 0..MaxBlock, e \in 0..MaxBlock, t \in 0..(MaxBlock + 1) :
         /\ s <= e
         /\ det' = [DetIdle EXCEPT !.pc = "test_end", !.start_block = s,
                                   !.end_block = e, !.T = t]
    /\ UNCHANGED <<extVars, settings, ep, retry, syncVars>>

\* Lines 84-91: test end_block first.
TestEndBody(d, outcome) ==
    IF outcome = "info"
    THEN [d EXCEPT !.pc = "test_start", !.probes = @ + 1]
    ELSE [d EXCEPT !.pc = "done", !.probes = @ + 1,
                   !.result = ResBlock(d.end_block + 1)]

TestEnd ==
    /\ det.pc = "test_end"
    /\ \E outcome \in ProbeOutcomes(det.end_block, det.T) :
         det' = TestEndBody(det, outcome)
    /\ UNCHANGED <<extVars, settings, ep, retry, syncVars>>

\* Lines 94-103: test start_block, then lo, hi = start_block, end_block.
TestStartBody(d, outcome) ==
    IF outcome = "info"
    THEN [d EXCEPT !.pc = "done", !.probes = @ + 1, !.result = ResNone]
    ELSE [d EXCEPT !.pc = "search", !.probes = @ + 1,
                   !.lo = d.start_block, !.hi = d.end_block]

TestStart ==
    /\ det.pc = "test_start"
    /\ \E outcome \in ProbeOutcomes(det.start_block, det.T) :
         det' = TestStartBody(det, outcome)
    /\ UNCHANGED <<extVars, settings, ep, retry, syncVars>>

\* The binary search with `hi = mid - 1` on a success.
BisectBody_skip_mid(d, outcome) ==
    LET mid == (d.lo + d.hi) \div 2
    IN  IF outcome = "info"
        THEN [d EXCEPT !.hi = mid - 1, !.probes = @ + 1]
        ELSE [d EXCEPT !.lo = mid + 1, !.probes = @ + 1]

\* Lines 104-113: one iteration of the binary search.
BisectBody(d, outcome) ==
    LET mid == (d.lo + d.hi) \div 2
    IN  IF outcome = "info"
        THEN [d EXCEPT !.hi = mid, !.probes = @ + 1]
        ELSE [d EXCEPT !.lo = mid + 1, !.probes = @ + 1]

BisectStep ==
    /\ det.pc = "search"
    /\ det.lo < det.hi
    /\ \E outcome \in ProbeOutcomes((det.lo + det.hi) \div 2, det.T) :
         det' = BisectBody(det, outcome)
    /\ UNCHANGED <<extVars, settings, ep, retry, syncVars>>

\* Line 115: return lo.
BisectReturn ==
    /\ det.pc = "search"
    /\ ~(det.lo < det.hi)
    /\ det' = [det EXCEPT !.pc = "done", !.result = ResBlock(det.lo)]
    /\ UNCHANGED <<extVars, settings, ep, retry, syncVars>>

\* ------------------------------------------------- tasks.py, lines 58-115
\* bt.Subtensor(network=...) either returns a connection or raises. An error
\* is [msg, id]: msg the lower-cased message, id the attempt that raised it
\* (two errors of different attempts are different exception objects).
ErrorMessages == {"websocket handshake timeout", "connection refused",
                  "invalid network name"}

\* The terms of line 81 that occur in each message.
TermsIn(msg) ==
    CASE msg = "websocket handshake timeout" -> {"timeout", "handshake", "websocket"}
      [] msg = "connection refused"          -> {"connection", "refused"}
      [] OTHER                               -> {}

is_transient(msg) ==
    TermsIn(msg) \cap {"timeout", "handshake", "connection", "websocket", "refused"} # {}

NoError == [msg |-> "", id |-> 0]

RetryIdle == [pc |-> "idle", max_retries |-> 0, attempt |-> 0,
              last_error |-> NoError, log |-> <<>>, sleeps |-> <<>>,
              exc |-> [type |-> "", attempts |-> 0, original_error |-> NoError]]

RetryCall ==
    /\ retry.pc = "idle"
    /\ \E m \in 0..MaxRetries :
         retry' = [RetryIdle EXCEPT !.pc = "loop", !.max_retries = m, !.attempt = 1]
    /\ UNCHANGED <<extVars, settings, ep, det, syncVars>>

\* The loop body without the is_transient test: every error is retried.
AttemptBody_retry_all(r, outcome) ==
    LET e == [msg |-> outcome, id |-> r.attempt]
        logged == [r EXCEPT !.log = Append(@, outcome)]
    IN  IF outcome = "ok"
        THEN [logged EXCEPT !.pc = "returned"]
        ELSE IF r.attempt = r.max_retries
        THEN [logged EXCEPT !.pc = "raised", !.last_error = e,
                            !.exc = [type |-> "SubtensorConnectionError",
                                     attempts |-> r.attempt,
                                     original_error |-> e]]
        ELSE [logged EXCEPT !.last_error = e,
                            !.sleeps = Append(@, SUBTENSOR_CONNECTION_BACKOFF * r.attempt),
                            !.attempt = @ + 1]

\* One iteration of `for attempt in range(1, max_retries + 1)`; outcome is
\* "ok" or the message of the exception bt.Subtensor raised.
AttemptBody(r, outcome) ==
    LET e == [msg |-> outcome, id |-> r.attempt]
        logged == [r EXCEPT !.log = Append(@, outcome)]
    IN  IF outcome = "ok"
        THEN [logged EXCEPT !.pc = "returned"]
        ELSE IF ~is_transient(outcome)
        THEN [logged EXCEPT !.pc = "raised", !.last_error = e,
                            !.exc = [type |-> "original", attempts |-> 0,
                                     original_error |-> e]]
        ELSE IF r.attempt = r.max_retries
        THEN [logged EXCEPT !.pc = "raised", !.last_error = e,
                            !.exc = [type |-> "SubtensorConnectionError",
                                     attempts |-> r.attempt,
                                     original_error |-> e]]
        ELSE [logged EXCEPT !.last_error = e,
                            !.sleeps = Append(@, SUBTENSOR_CONNECTION_BACKOFF * r.attempt),
                            !.attempt = @ + 1]

Attempt ==
    /\ retry.pc = "loop"
    /\ retry.attempt <= retry.max_retries
    /\ \E outcome \in {"ok"} \cup ErrorMessages :
         retry' = AttemptBody(retry, outcome)
    /\ UNCHANGED <<extVars, settings, ep, det, syncVars>>

\* Line 115: the loop ended without returning or raising (max_retries < 1).
RetryFallThrough ==
    /\ retry.pc = "loop"
    /\ ~(retry.attempt <= retry.max_retries)
    /\ retry' = [retry EXCEPT !.pc = "raised",
                              !.exc = [type |-> "SubtensorConnectionError",
                                       attempts |-> retry.max_retries,
                                       original_error |-> retry.last_error]]
    /\ UNCHANGED <<extVars, settings, ep, det, syncVars>>

\* ------------------------------------------------- models.py: the store
\* Columns kept per table: the unique keys, the foreign keys and the columns
\* whose written value depends on the caller or on the snapshot.
EmptyDb == [coldkeys |-> {}, hotkeys |-> {}, neurons |-> {}, snapshots |-> {},
            mechs |-> {}, weights |-> {}, dumps |-> {}, blocks |-> {},
            subnets |-> {}]

\* The ForeignKey columns of models.py. Django declares them DEFERRABLE
\* INITIALLY DEFERRED on PostgreSQL, so they are checked when the
\* transaction commits.
ForeignKeysHold(d) ==
    /\ \A h \in d.hotkeys : \E c \in d.coldkeys : c.id = h.coldkey
    /\ \A n \in d.neurons : \E h \in d.hotkeys : h.id = n.hotkey
    /\ \A s \in d.snapshots : \E n \in d.neurons : n.id = s.neuron
    /\ \A w \in d.weights : \A x \in {w.source_neuron, w.target_neuron} :
            \E n \in d.neurons : n.id = x

\* ------------------------------------ apy_sync_service.py / sync_service.py
\* __init__ of both services: empty caches. A cache maps an address to the
\* id of the cached model object (0: not cached); the neuron cache holds the
\* cached Neuron objects, keyed by (hotkey id, subnet netuid).
FreshService == [coldkey_cache |-> [a \in Coldkeys |-> 0],
                 hotkey_cache |-> [a \in Hotkeys |-> 0],
                 neuron_cache |-> {},
                 hotkeys_to_update |-> {}]

\* The chain values every snapshot of the model carries: emission and stake
\* in TAO, the neuron's axon address and version, the subnet's name.
Chain == [alpha_out_emission |-> 1, alpha_stake |-> 1,
          axon_address |-> "10.0.0.1:8091", neuron_version |-> 1,
          name |-> "apex"]

_to_rao(tao_value) == tao_value * TAO_TO_RAO

\* _compute_dividend_apy whose guard forgets alpha_stake: -1 stands for the
\* ZeroDivisionError of a division by 0.0.
dividend_apy_without_stake_guard(dividend, alpha_out_emission, alpha_stake, owner_cut) ==
    IF alpha_out_emission <= 0 \/ dividend <= 0 THEN 0
    ELSE IF alpha_stake = 0 THEN -1
    ELSE IF alpha_stake < 0
    THEN 0 - (dividend * 1000 * alpha_out_emission * (100 - owner_cut)) \div (0 - alpha_stake)
    ELSE (dividend * 1000 * alpha_out_emission * (100 - owner_cut)) \div alpha_stake

\* The float formula in fixed point: the share in 1/1000, the result the
\* percentage rounded down.
_compute_dividend_apy(dividend, alpha_out_emission, alpha_stake, owner_cut) ==
    IF alpha_stake <= 0 \/ alpha_out_emission <= 0 \/ dividend <= 0
    THEN 0
    ELSE LET dividend_share == IF dividend > 1 THEN (dividend * 1000) \div 65535
                               ELSE dividend * 1000
         IN  (((dividend_share * alpha_out_emission * (100 - owner_cut)) \div 2)
               * (BLOCKS_PER_YEAR \div 1000)) \div alpha_stake

\* The arguments of a call: dividend negative, zero, a normalized share or a
\* raw u16; emission and stake negative, zero or positive; owner_cut in
\* percent.
DividendArgs == {-1, 0, 1, 32768, 65535}
TaoArgs == (-1)..MaxTao
OwnerCutArgs == {0, 9, 18}

ApyIdle == [pc |-> "idle", dividend |-> 0, alpha_out_emission |-> 0,
            alpha_stake |-> 0, owner_cut |-> 0, result |-> 0]

\* One call of _compute_dividend_apy.
ComputeDividendApy ==
    /\ \E dividend \in DividendArgs, alpha_out_emission \in TaoArgs,
          alpha_stake \in TaoArgs, owner_cut \in OwnerCutArgs :
         apy' = [pc |-> "done", dividend |-> dividend,
                 alpha_out_emission |-> alpha_out_emission,
                 alpha_stake |-> alpha_stake, owner_cut |-> owner_cut,
                 result |-> _compute_dividend_apy(dividend, alpha_out_emission,
                                                  alpha_stake, owner_cut)]
    /\ UNCHANGED <<settings, ep, det, retry, db, seq, svc, task, now, hist, extOfApy>>

\* A sync in progress is a context c: the store and sequence as the
\* transaction sees them, the service's caches, the value returned by the
\* last helper (ret), the stats dict and whether an exception was raised.
Context(d, s, service) ==
    [db |-> d, seq |-> s, svc |-> service, ret |-> 0, raised |-> FALSE,
     stats |-> [snapshots |-> 0, mechanism_metrics |-> 0]]

Raise(c) == [c EXCEPT !.raised = TRUE]

\* _get_or_create_coldkey (the same code in both services).
_get_or_create_coldkey(c, coldkey_address) ==
    IF c.svc.coldkey_cache[coldkey_address] # 0
    THEN [c EXCEPT !.ret = c.svc.coldkey_cache[coldkey_address]]
    ELSE LET rows == {r \in c.db.coldkeys : r.coldkey = coldkey_address}
             id == IF rows = {} THEN c.seq + 1 ELSE (CHOOSE r \in rows : TRUE).id
         IN  [c EXCEPT !.db.coldkeys = @ \cup {[id |-> id, coldkey |-> coldkey_address]},
                       !.seq = IF rows = {} THEN id ELSE @,
                       !.svc.coldkey_cache[coldkey_address] = id,
                       !.ret = id]

\* The get_or_create that writes last_seen of an existing row on the spot,
\* once per neuron, next to deferring it.
hotkey_get_or_create_touching(c, hotkey_address, t) ==
    LET rows == {r \in c.db.hotkeys : r.hotkey = hotkey_address}
    IN  IF rows = {}
        THEN [c EXCEPT !.db.hotkeys = @ \cup
                          {[id |-> c.seq + 1, hotkey |-> hotkey_address,
                            coldkey |-> c.ret, last_seen |-> t]},
                       !.seq = c.seq + 1,
                       !.svc.hotkey_cache[hotkey_address] = c.seq + 1,
                       !.ret = c.seq + 1]
        ELSE LET row == CHOOSE r \in rows : TRUE
             IN  [c EXCEPT !.db.hotkeys = (@ \ {row}) \cup
                                {[row EXCEPT !.coldkey = c.ret, !.last_seen = t + 1]},
                           !.svc.hotkeys_to_update = @ \cup {row.id},
                           !.svc.hotkey_cache[hotkey_address] = row.id,
                           !.ret = row.id]

\* Hotkey.objects.get_or_create(hotkey=..., defaults={coldkey, last_seen})
\* and the relink of an existing row, lines 246-254; c.ret is the id of the
\* Coldkey object _get_or_create_coldkey returned, t is timezone.now().
APY_hotkey_get_or_create(c, hotkey_address, t) ==
    LET rows == {r \in c.db.hotkeys : r.hotkey = hotkey_address}
    IN  IF rows = {}
        THEN [c EXCEPT !.db.hotkeys = @ \cup
                          {[id |-> c.seq + 1, hotkey |-> hotkey_address,
                            coldkey |-> c.ret, last_seen |-> t]},
                       !.seq = c.seq + 1,
                       !.svc.hotkey_cache[hotkey_address] = c.seq + 1,
                       !.ret = c.seq + 1]
        ELSE LET row == CHOOSE r \in rows : TRUE
                 saved == IF row.coldkey # c.ret
                          THEN [row EXCEPT !.coldkey = c.ret] ELSE row
             IN  [c EXCEPT !.db.hotkeys = (@ \ {row}) \cup {saved},
                           !.svc.hotkeys_to_update = @ \cup {row.id},
                           !.svc.hotkey_cache[hotkey_address] = row.id,
                           !.ret = row.id]

\* APYSyncService._get_or_create_hotkey.
APY_get_or_create_hotkey(c, hotkey_address, coldkey_address, t) ==
    IF c.svc.hotkey_cache[hotkey_address] # 0
    THEN [c EXCEPT !.svc.hotkeys_to_update = @ \cup {c.svc.hotkey_cache[hotkey_address]},
                   !.ret = c.svc.hotkey_cache[hotkey_address]]
    ELSE APY_hotkey_get_or_create(_get_or_create_coldkey(c, coldkey_address),
                                  hotkey_address, t)

\* Lines 313-326 of MetagraphSyncService._get_or_create_hotkey: c.ret is the
\* id of the coldkey, 0 when coldkey_data is missing (None).
Full_hotkey_get_or_create(c, hotkey_address, t) ==
    LET rows == {r \in c.db.hotkeys : r.hotkey = hotkey_address}
    IN  IF rows = {}
        THEN [c EXCEPT !.db.hotkeys = @ \cup
                          {[id |-> c.seq + 1, hotkey |-> hotkey_address,
                            coldkey |-> c.ret, last_seen |-> t]},
                       !.seq = c.seq + 1,
                       !.svc.hotkey_cache[hotkey_address] = c.seq + 1,
                       !.ret = c.seq + 1]
        ELSE LET row == CHOOSE r \in rows : TRUE
                 saved == IF c.ret # 0 /\ row.coldkey # c.ret
                          THEN [row EXCEPT !.coldkey = c.ret] ELSE row
             IN  [c EXCEPT !.db.hotkeys = (@ \ {row}) \cup {saved},
                           !.svc.hotkeys_to_update = @ \cup {row.id},
                           !.svc.hotkey_cache[hotkey_address] = row.id,
                           !.ret = row.id]

\* MetagraphSyncService._get_or_create_hotkey; coldkey_address "" is a
\* missing coldkey_data (None).
Full_get_or_create_hotkey(c, hotkey_address, coldkey_address, t) ==
    IF c.svc.hotkey_cache[hotkey_address] # 0
    THEN [c EXCEPT !.svc.hotkeys_to_update = @ \cup {c.svc.hotkey_cache[hotkey_address]},
                   !.ret = c.svc.hotkey_cache[hotkey_address]]
    ELSE Full_hotkey_get_or_create(
             IF coldkey_address # "" THEN _get_or_create_coldkey(c, coldkey_address)
             ELSE [c EXCEPT !.ret = 0],
             hotkey_address, t)

\* The flush that drops the pending set without the UPDATE.
_flush_without_update(c, t) == [c EXCEPT !.svc.hotkeys_to_update = {}]

\* _flush_hotkey_last_seen (the same code in both services).
_flush_hotkey_last_seen(c, t) ==
    IF c.svc.hotkeys_to_update = {}
    THEN c
    ELSE [c EXCEPT !.db.hotkeys =
                       {IF r.id \in c.svc.hotkeys_to_update
                        THEN [r EXCEPT !.last_seen = t] ELSE r : r \in @},
                   !.svc.hotkeys_to_update = {}]

\* The update that takes every value the sync carries, stored or not.
FillGiven(stored, given) == IF given # 0 THEN given ELSE stored

\* Block.objects.get_or_create and the fill-missing-only update; 0 is None.
FillMissing(stored, given) == IF given # 0 /\ stored = 0 THEN given ELSE stored

APY_sync_block(c, block_number, block_timestamp, started_at, finished_at) ==
    LET rows == {r \in c.db.blocks : r.number = block_number}
    IN  IF rows = {}
        THEN [c EXCEPT !.db.blocks = @ \cup
                          {[number |-> block_number, timestamp |-> block_timestamp,
                            dump_started_at |-> started_at,
                            dump_finished_at |-> finished_at]}]
        ELSE LET block == CHOOSE r \in rows : TRUE
                 saved == [block EXCEPT
                             !.timestamp = FillMissing(@, block_timestamp),
                             !.dump_started_at = FillMissing(@, started_at),
                             !.dump_finished_at = FillMissing(@, finished_at)]
             IN  [c EXCEPT !.db.blocks = (@ \ {block}) \cup {saved}]

Full_sync_block(c, block_number, block_timestamp, started_at, finished_at) ==
    LET rows == {r \in c.db.blocks : r.number = block_number}
    IN  IF rows = {}
        THEN [c EXCEPT !.db.blocks = @ \cup
                          {[number |-> block_number, timestamp |-> block_timestamp,
                            dump_started_at |-> started_at,
                            dump_finished_at |-> finished_at]}]
        ELSE LET block == CHOOSE r \in rows : TRUE
                 saved == [block EXCEPT
                             !.timestamp = FillMissing(@, block_timestamp),
                             !.dump_started_at = FillMissing(@, started_at),
                             !.dump_finished_at = FillMissing(@, finished_at)]
             IN  [c EXCEPT !.db.blocks = (@ \ {block}) \cup {saved}]

\* APYSyncService._sync_subnet: name "Subnet {netuid}" is "default".
APY_sync_subnet(c, netuid, alpha_out_emission) ==
    LET rows == {r \in c.db.subnets : r.netuid = netuid}
    IN  IF rows = {}
        THEN [c EXCEPT !.db.subnets = @ \cup
                          {[netuid |-> netuid, name |-> "default",
                            alpha_out_emission |-> _to_rao(alpha_out_emission)]}]
        ELSE LET subnet == CHOOSE r \in rows : TRUE
                 saved == IF alpha_out_emission > 0
                          THEN [subnet EXCEPT !.alpha_out_emission =
                                                  _to_rao(alpha_out_emission)]
                          ELSE subnet
             IN  [c EXCEPT !.db.subnets = (@ \ {subnet}) \cup {saved}]

\* MetagraphSyncService._sync_subnet for subnet_data without owner_hotkey;
\* name "" is a missing name.
Full_sync_subnet(c, netuid, name) ==
    LET rows == {r \in c.db.subnets : r.netuid = netuid}
    IN  IF rows = {}
        THEN [c EXCEPT !.db.subnets = @ \cup
                          {[netuid |-> netuid, name |-> name,
                            alpha_out_emission |-> 0]}]
        ELSE LET subnet == CHOOSE r \in rows : TRUE
                 saved == IF name # "" /\ subnet.name # name
                          THEN [subnet EXCEPT !.name = name] ELSE subnet
             IN  [c EXCEPT !.db.subnets = (@ \ {subnet}) \cup {saved}]

\* APYSyncService._sync_neuron: hotkey is the id of the Hotkey object.
APY_sync_neuron(c, hotkey, netuid, uid) ==
    LET hit == {n \in c.svc.neuron_cache : n.hotkey = hotkey /\ n.subnet = netuid}
    IN  IF hit # {}
        THEN [c EXCEPT !.ret = (CHOOSE n \in hit : TRUE).id]
        ELSE LET rows == {r \in c.db.neurons : r.hotkey = hotkey /\ r.subnet = netuid}
                 got == IF rows = {}
                        THEN [id |-> c.seq + 1, hotkey |-> hotkey,
                              subnet |-> netuid, uid |-> uid]
                        ELSE CHOOSE r \in rows : TRUE
                 neuron == IF got.uid # uid THEN [got EXCEPT !.uid = uid] ELSE got
             IN  [c EXCEPT !.db.neurons = (@ \ rows) \cup {neuron},
                           !.seq = IF rows = {} THEN @ + 1 ELSE @,
                           !.svc.neuron_cache = @ \cup {neuron},
                           !.ret = neuron.id]

\* MetagraphSyncService._sync_neuron for neuron_data without evm_key; the
\* hotkey is in the hotkey cache when it is called.
Full_sync_neuron(c, hotkey, netuid, uid) ==
    LET hit == {n \in c.svc.neuron_cache : n.hotkey = hotkey /\ n.subnet = netuid}
    IN  IF hit # {}
        THEN [c EXCEPT !.ret = (CHOOSE n \in hit : TRUE).id]
        ELSE LET rows == {r \in c.db.neurons : r.hotkey = hotkey /\ r.subnet = netuid}
                 got == IF rows = {}
                        THEN [id |-> c.seq + 1, hotkey |-> hotkey,
                              subnet |-> netuid, uid |-> uid]
                        ELSE CHOOSE r \in rows : TRUE
                 neuron == IF got.uid # uid THEN [got EXCEPT !.uid = uid] ELSE got
             IN  [c EXCEPT !.db.neurons = (@ \ rows) \cup {neuron},
                           !.seq = IF rows = {} THEN @ + 1 ELSE @,
                           !.svc.neuron_cache = @ \cup {neuron},
                           !.ret = neuron.id]

\* A NeuronSnapshot row as the model's defaults create it.
NewSnapshot(neuron, block_number) ==
    [neuron |-> neuron, block |-> block_number, uid |-> 0, axon_address |-> "",
     is_validator |-> FALSE, alpha_stake |-> 0, dividend_apy |-> 0,
     neuron_version |-> 0]

\* APYSyncService._sync_neuron_snapshot: update_or_create writes the columns
\* of `defaults` and leaves the others of an existing row alone.
APY_sync_neuron_snapshot(c, neuron, block_number, uid, alpha_stake, dividend_apy, is_validator) ==
    LET rows == {r \in c.db.snapshots : r.neuron = neuron /\ r.block = block_number}
        got == IF rows = {} THEN NewSnapshot(neuron, block_number)
               ELSE CHOOSE r \in rows : TRUE
        snapshot == [got EXCEPT !.uid = uid,
                                !.alpha_stake = _to_rao(alpha_stake),
                                !.dividend_apy = dividend_apy,
                                !.is_validator = is_validator,
                                !.axon_address = ""]
    IN  [c EXCEPT !.db.snapshots = (@ \ rows) \cup {snapshot}]

\* MetagraphSyncService._sync_neuron_snapshot.
Full_sync_neuron_snapshot(c, neuron, block_number, snapshot_data) ==
    LET rows == {r \in c.db.snapshots : r.neuron = neuron /\ r.block = block_number}
        got == IF rows = {} THEN NewSnapshot(neuron, block_number)
               ELSE CHOOSE r \in rows : TRUE
        snapshot == [got EXCEPT !.uid = snapshot_data.uid,
                                !.axon_address = Chain.axon_address,
                                !.is_validator = snapshot_data.validator_permit,
                                !.neuron_version = Chain.neuron_version]
    IN  [c EXCEPT !.db.snapshots = (@ \ rows) \cup {snapshot}]

\* _sync_mechanism_metrics: update_or_create keyed by (snapshot, mech_id);
\* the snapshot is named by its own unique key (neuron, block).
_sync_mechanism_metrics(c, neuron, block_number, mech_id, dividend, incentive) ==
    LET rows == {r \in c.db.mechs : r.neuron = neuron /\ r.block = block_number
                                    /\ r.mech_id = mech_id}
        metrics == [neuron |-> neuron, block |-> block_number, mech_id |-> mech_id,
                    dividend |-> dividend, incentive |-> incentive]
    IN  [c EXCEPT !.db.mechs = (@ \ rows) \cup {metrics}]

\* _sync_metagraph_dump: update_or_create keyed by (netuid, block).
_sync_metagraph_dump(c, netuid, block_number, epoch_position, started_at, finished_at) ==
    LET rows == {r \in c.db.dumps : r.netuid = netuid /\ r.block = block_number}
        dump == [netuid |-> netuid, block |-> block_number,
                 epoch_position |-> epoch_position,
                 started_at |-> started_at, finished_at |-> finished_at]
    IN  [c EXCEPT !.db.dumps = (@ \ rows) \cup {dump}]

\* MetagraphSyncService._sync_weights: bulk_create(ignore_conflicts=True) of
\* the edges whose two uids are in the neuron cache for this subnet.
_sync_weights(c, weights_data, block_number, netuid) ==
    LET cached == {n \in c.svc.neuron_cache : n.subnet = netuid}
        Of(uid) == {n.id : n \in {m \in cached : m.uid = uid}}
        weights_to_create ==
            {[source_neuron |-> s, target_neuron |-> t, block |-> block_number,
              mech_id |-> 0] :
                <<s, t>> \in UNION {Of(w.source_neuron_uid) \X Of(w.target_neuron_uid) :
                                      w \in weights_data}}
    IN  [c EXCEPT !.db.weights = @ \cup weights_to_create]

\* ----------------------------------------------- the snapshot given to a sync
\* One neuron record of a metagraph (metagraph.uids[i], .hotkeys[i], ...).
\* The neuron records of a snapshot; dividends are paid to validators only.
NeuronRecords ==
    {rec \in [uid : Uids, hotkey : Hotkeys, coldkey : Coldkeys,
              validator_permit : BOOLEAN, dividend : Dividends,
              incentive : Incentives] :
        rec.dividend > 0 => rec.validator_permit}

\* A metagraph with at least one neuron: on chain a hotkey holds one uid of
\* a subnet and a uid belongs to one hotkey.
Metagraphs ==
    {m \in UNION {[1..n -> NeuronRecords] : n \in 1..MaxNeurons} :
        \A i, j \in DOMAIN m :
            i # j => m[i].hotkey # m[j].hotkey /\ m[i].uid # m[j].uid}

\* Where an exception is raised inside sync_metagraph: 0 nowhere; 1 in the
\* block step, 2 in the subnet step, i + 2 while neuron record i is read
\* (a malformed record), n + 3 after the last record (the edges or the dump
\* step), n + 4 in the flush.
FailPoints(neurons) == 0..(Len(neurons) + 4)

\* ---------------------------------------- APYSyncService.sync_metagraph
\* Lines 213-216: the mechanism row of a record whose dividend or incentive
\* is positive; neuron is the id of the record's Neuron.
APY_record_metrics(c, neuron, args, rec) ==
    IF rec.dividend > 0 \/ rec.incentive > 0
    THEN [_sync_mechanism_metrics(c, neuron, args.block_number, 0,
                                  rec.dividend, rec.incentive)
            EXCEPT !.stats.mechanism_metrics = @ + 1]
    ELSE c

\* Lines 197-211: the snapshot of the Neuron _sync_neuron returned (c.ret).
APY_record_snapshot(c, args, rec) ==
    APY_record_metrics(
        [APY_sync_neuron_snapshot(c, c.ret, args.block_number, rec.uid,
             Chain.alpha_stake,
             _compute_dividend_apy(rec.dividend, Chain.alpha_out_emission,
                                   Chain.alpha_stake, settings.SUBNET_OWNER_CUT),
             TRUE)
           EXCEPT !.stats.snapshots = @ + 1],
        c.ret, args, rec)

\* Lines 193-195: the Neuron of the Hotkey _get_or_create_hotkey returned.
APY_record_neuron(c, args, rec) ==
    APY_record_snapshot(APY_sync_neuron(c, c.ret, args.netuid, rec.uid), args, rec)

\* One iteration of `for i in range(n_neurons)`, lines 148-216.
APY_sync_record(c, args, rec, t) ==
    IF ~rec.validator_permit
    THEN c
    ELSE APY_record_neuron(
             APY_get_or_create_hotkey(_get_or_create_coldkey(c, rec.coldkey),
                                      rec.hotkey, rec.coldkey, t),
             args, rec)

RECURSIVE APY_sync_neurons(_, _, _, _)
APY_sync_neurons(c, args, i, t) ==
    IF i > Len(args.neurons) THEN c
    ELSE IF args.fail_at = i + 2 THEN Raise(c)
    ELSE APY_sync_neurons(APY_sync_record(c, args, args.neurons[i], t), args, i + 1, t)

\* The steps of `with transaction.atomic():`, lines 139-222; a step is
\* skipped once an exception has been raised.
APY_step_block(c, args) ==
    IF args.fail_at = 1 THEN Raise(c)
    ELSE APY_sync_block(c, args.block_number, args.block_timestamp,
                        args.started_at, args.finished_at)

APY_step_subnet(c, args) ==
    IF c.raised THEN c
    ELSE IF args.fail_at = 2 THEN Raise(c)
    ELSE APY_sync_subnet(c, args.netuid, Chain.alpha_out_emission)

APY_step_neurons(c, args, t) ==
    IF c.raised THEN c ELSE APY_sync_neurons(c, args, 1, t)

APY_step_dump(c, args) ==
    IF c.raised THEN c
    ELSE IF args.fail_at = Len(args.neurons) + 3 THEN Raise(c)
    ELSE _sync_metagraph_dump(c, args.netuid, args.block_number,
                              args.epoch_position, args.started_at,
                              args.finished_at)

APY_step_flush(c, args, t) ==
    IF c.raised THEN c
    ELSE IF args.fail_at = Len(args.neurons) + 4 THEN Raise(c)
    ELSE _flush_hotkey_last_seen(c, t)

\* The body of `with transaction.atomic():`.
APY_sync_body(c, args, t) ==
    APY_step_flush(
        APY_step_dump(
            APY_step_neurons(APY_step_subnet(APY_step_block(c, args), args), args, t),
            args),
        args, t)

\* Autocommit: no transaction around the body, every write stays.
transaction_autocommit(before, after) == after

\* transaction.atomic() around a body that started from `before` and ended
\* in `after`: an exception rolls the store back and propagates; otherwise
\* COMMIT checks the deferred foreign keys, and a violation raises
\* IntegrityError and rolls back. The caches and the sequence are not part
\* of the transaction.
transaction_atomic(before, after) ==
    IF after.raised
    THEN [after EXCEPT !.db = before.db]
    ELSE IF ~ForeignKeysHold(after.db)
    THEN [after EXCEPT !.db = before.db, !.raised = TRUE]
    ELSE after

APY_sync_metagraph(c, args, t) ==
    transaction_atomic(c, APY_sync_body(c, args, t))

\* ------------------------------------ MetagraphSyncService.sync_metagraph
\* neuron_data["mechanisms"]: one entry (mech_id 0) with the record's
\* dividend and incentive when the provider sends mechanism data; neuron is
\* the id of the record's Neuron.
Full_record_metrics(c, neuron, args, rec) ==
    IF args.mechanisms
    THEN [_sync_mechanism_metrics(c, neuron, args.block_number, 0,
                                  rec.dividend, rec.incentive)
            EXCEPT !.stats.mechanism_metrics = @ + 1]
    ELSE c

\* Lines 158-160: the snapshot of the Neuron _sync_neuron returned (c.ret).
Full_record_snapshot(c, args, rec) ==
    Full_record_metrics(
        [Full_sync_neuron_snapshot(c, c.ret, args.block_number, rec)
           EXCEPT !.stats.snapshots = @ + 1],
        c.ret, args, rec)

\* Lines 154-156: the Neuron of the hotkey _get_or_create_hotkey cached.
Full_record_neuron(c, args, rec) ==
    Full_record_snapshot(Full_sync_neuron(c, c.ret, args.netuid, rec.uid), args, rec)

\* One iteration of `for neuron_data in neurons_data`, lines 133-167.
Full_sync_record(c, args, rec, t) ==
    Full_record_neuron(
        Full_get_or_create_hotkey(_get_or_create_coldkey(c, rec.coldkey),
                                  rec.hotkey, rec.coldkey, t),
        args, rec)

RECURSIVE Full_sync_neurons(_, _, _, _)
Full_sync_neurons(c, args, i, t) ==
    IF i > Len(args.neurons) THEN c
    ELSE IF args.fail_at = i + 2 THEN Raise(c)
    ELSE Full_sync_neurons(Full_sync_record(c, args, args.neurons[i], t), args, i + 1, t)

\* data["weights"]: when present, one edge for every ordered pair of the
\* snapshot's uids.
WeightsData(args) ==
    IF args.weights
    THEN {[source_neuron_uid |-> args.neurons[i].uid,
           target_neuron_uid |-> args.neurons[j].uid] :
              i \in DOMAIN args.neurons, j \in DOMAIN args.neurons}
    ELSE {}

\* The steps of `with transaction.atomic():`, lines 125-190; a step is
\* skipped once an exception has been raised.
Full_step_block(c, args) ==
    IF args.fail_at = 1 THEN Raise(c)
    ELSE Full_sync_block(c, args.block_number, args.block_timestamp,
                         args.started_at, args.finished_at)

Full_step_subnet(c, args) ==
    IF c.raised THEN c
    ELSE IF args.fail_at = 2 THEN Raise(c)
    ELSE Full_sync_subnet(c, args.netuid, Chain.name)

Full_step_neurons(c, args, t) ==
    IF c.raised THEN c ELSE Full_sync_neurons(c, args, 1, t)

Full_step_weights(c, args) ==
    IF c.raised THEN c
    ELSE IF args.fail_at = Len(args.neurons) + 3 THEN Raise(c)
    ELSE _sync_weights(c, WeightsData(args), args.block_number, args.netuid)

Full_step_dump(c, args) ==
    IF c.raised THEN c
    ELSE _sync_metagraph_dump(c, args.netuid, args.block_number,
                              args.epoch_position, args.started_at,
                              args.finished_at)

Full_step_flush(c, args, t) ==
    IF c.raised THEN c
    ELSE IF args.fail_at = Len(args.neurons) + 4 THEN Raise(c)
    ELSE _flush_hotkey_last_seen(c, t)

\* The body of `with transaction.atomic():`.
Full_sync_body(c, args, t) ==
    Full_step_flush(
        Full_step_dump(
            Full_step_weights(
                Full_step_neurons(Full_step_subnet(Full_step_block(c, args), args),
                                  args, t),
                args),
            args),
        args, t)

Full_sync_metagraph(c, args, t) ==
    transaction_atomic(c, Full_sync_body(c, args, t))

sync_metagraph(mode, c, args, t) ==
    IF mode = "apy" THEN APY_sync_metagraph(c, args, t)
    ELSE Full_sync_metagraph(c, args, t)

\* ------------------------------------------------------------ history
\* One record per sync_metagraph call: which service class (mode), the
\* arguments, whether it raised, the store and the id sequence before it,
\* the service instance it ran on and whether it was that instance's first
\* call.
NoCall == [mode |-> "none", args |-> <<>>, raised |-> FALSE, dbBefore |-> EmptyDb,
           seqBefore |-> 0, instance |-> 0, first |-> FALSE,
           stats |-> [snapshots |-> 0, mechanism_metrics |-> 0]]

HistInit == [last |-> NoCall, prev |-> NoCall, instance |-> 0, calls |-> 0,
             lastObs |-> [k \in Hotkeys \X SyncNetuids |-> 0]]

\* The records a sync writes: every record in the full mode, the validators
\* in the APY mode.
Synced(mode, args) ==
    {i \in DOMAIN args.neurons : mode = "full" \/ args.neurons[i].validator_permit}

Observe(obs, mode, args) ==
    [k \in DOMAIN obs |->
        LET seen == {i \in Synced(mode, args) :
                        args.neurons[i].hotkey = k[1] /\ args.netuid = k[2]}
        IN  IF seen = {} THEN obs[k]
            ELSE args.neurons[CHOOSE i \in seen : TRUE].uid]

\* A new service object: APYSyncService() or MetagraphSyncService().
NewInstance(h) == [h EXCEPT !.instance = @ + 1, !.calls = 0]

RecordCall(h, mode, args, c, dbBefore, seqBefore) ==
    [h EXCEPT !.prev = h.last,
              !.last = [mode |-> mode, args |-> args, raised |-> c.raised,
                        dbBefore |-> dbBefore, seqBefore |-> seqBefore,
                        instance |-> h.instance,
                        first |-> h.calls = 0,
                        stats |-> c.stats],
              !.calls = @ + 1,
              !.lastObs = IF c.raised THEN @ ELSE Observe(@, mode, args)]

\* -------------------------------------------------- tasks.py: the tasks
NoExc == [type |-> "", processed |-> 0, total |-> 0]

TaskIdle == [kind |-> "none", pc |-> "idle", total |-> 0, processed |-> 0,
             errors |-> 0, results |-> <<>>, items |-> <<>>, soft |-> FALSE,
             exc |-> NoExc]

\* dump_metadata and the other arguments a task passes to sync_metagraph;
\* started_at and finished_at are the task's clock readings.
SyncArgs(block_number, netuid, neurons, fail_at, t, block_timestamp, weights, mechanisms) ==
    [block_number |-> block_number, netuid |-> netuid, neurons |-> neurons,
     block_timestamp |-> block_timestamp, started_at |-> t, finished_at |-> t,
     epoch_position |-> get_epoch_position_str(block_number, netuid),
     fail_at |-> fail_at, weights |-> weights, mechanisms |-> mechanisms]

\* `except Exception` (line 429): celery's SoftTimeLimitExceeded derives
\* from Exception, like the errors of a fetch or of a sync.
ExceptException(excType) ==
    excType \in {"FetchError", "DataError", "SoftTimeLimitExceeded"}

\* The handlers of the outer try, lines 472-493.
BatchOuterHandlers(tk, excType) ==
    IF excType = "SoftTimeLimitExceeded"
    THEN [tk EXCEPT !.pc = "timelimit",
                    !.exc = [type |-> "TaskTimeLimitError",
                             processed |-> tk.processed, total |-> tk.total]]
    ELSE [tk EXCEPT !.pc = "raised",
                    !.exc = [type |-> excType, processed |-> 0, total |-> 0]]

\* The loop body that counts an item without data as an error as well.
BatchLoopBody_no_data_error(tk, item, excType) ==
    LET logged == [tk EXCEPT !.items = Append(@, item),
                             !.soft = @ \/ excType = "SoftTimeLimitExceeded"]
    IN  IF excType = ""
        THEN IF item.kind = "no_data"
             THEN [logged EXCEPT !.errors = @ + 1, !.results = Append(@, "no_data")]
             ELSE [logged EXCEPT !.processed = @ + 1,
                                 !.results = Append(@, "success")]
        ELSE IF ExceptException(excType)
        THEN [logged EXCEPT !.errors = @ + 1, !.results = Append(@, "error")]
        ELSE BatchOuterHandlers(logged, excType)

\* One iteration of `for block_number, netuid in blocks`, lines 360-444:
\* item is what happened (its kind: "no_data", "sync", or the exception of
\* the fetch; its fault: the exception raised from outside into the item;
\* alone_ok: the item's sync succeeds on a service object of its own),
\* excType the exception raised inside the inner try ("" none).
BatchLoopBody(tk, item, excType) ==
    LET logged == [tk EXCEPT !.items = Append(@, item),
                             !.soft = @ \/ excType = "SoftTimeLimitExceeded"]
    IN  IF excType = ""
        THEN IF item.kind = "no_data"
             THEN [logged EXCEPT !.results = Append(@, "no_data")]
             ELSE [logged EXCEPT !.processed = @ + 1,
                                 !.results = Append(@, "success")]
        ELSE IF ExceptException(excType)
        THEN [logged EXCEPT !.errors = @ + 1, !.results = Append(@, "error")]
        ELSE BatchOuterHandlers(logged, excType)

\* fast_apy_sync_batch up to the loop: the connection and the service.
BatchStart ==
    /\ task.pc = "idle"
    /\ \E total \in 1..MaxItems, connected \in BOOLEAN :
         task' = IF connected
                 THEN [TaskIdle EXCEPT !.kind = "batch", !.pc = "running",
                                       !.total = total]
                 ELSE BatchOuterHandlers([TaskIdle EXCEPT !.kind = "batch",
                                                          !.total = total],
                                         "SubtensorConnectionError")
    /\ svc' = FreshService
    /\ hist' = NewInstance(hist)
    /\ UNCHANGED <<extVars, db, seq, now, settings, ep, det, retry>>

\* An item whose fetch returns no data or raises.
BatchItemFetch ==
    /\ task.kind = "batch" /\ task.pc = "running"
    /\ Len(task.items) < task.total
    /\ now <= MaxCalls
    /\ \E block_number \in SyncBlocks, netuid \in SyncNetuids,
          fetch \in {"no_data", "FetchError", "SoftTimeLimitExceeded"} :
         /\ fetch = "SoftTimeLimitExceeded" => ~task.soft
         /\ task' = BatchLoopBody(task,
                        [block |-> block_number, netuid |-> netuid, kind |-> fetch,
                         fault |-> IF fetch = "no_data" THEN "none" ELSE fetch,
                         alone_ok |-> FALSE],
                        IF fetch = "no_data" THEN "" ELSE fetch)
    /\ now' = now + 1
    /\ UNCHANGED <<extVars, db, seq, svc, hist, settings, ep, det, retry>>

\* The rest of an item's iteration once sync_metagraph has ended in c:
\* alone is the same sync on a service object of its own.
BatchItemSynced(args, soft, c, alone) ==
    /\ db' = c.db
    /\ seq' = c.seq
    /\ svc' = c.svc
    /\ task' = BatchLoopBody(task,
                   [block |-> args.block_number, netuid |-> args.netuid,
                    kind |-> "sync",
                    fault |-> IF args.fail_at = 0 THEN "none"
                              ELSE IF soft THEN "SoftTimeLimitExceeded"
                              ELSE "DataError",
                    alone_ok |-> ~alone.raised],
                   IF ~c.raised THEN ""
                   ELSE IF soft THEN "SoftTimeLimitExceeded" ELSE "DataError")
    /\ hist' = RecordCall(hist, "apy", args, c, db, seq)

\* Lines 395-400: sync_service.sync_metagraph on the task's service object.
BatchItemSyncCall(args, soft) ==
    BatchItemSynced(args, soft,
                    sync_metagraph("apy", Context(db, seq, svc), args, now),
                    sync_metagraph("apy", Context(db, seq, FreshService), args, now))

\* An item whose fetch returns a metagraph: the sync, in which an exception
\* may be raised at fail_at; soft says that exception is the soft time limit.
BatchItemSync ==
    /\ task.kind = "batch" /\ task.pc = "running"
    /\ Len(task.items) < task.total
    /\ now <= MaxCalls
    /\ \E block_number \in SyncBlocks, netuid \in SyncNetuids,
          neurons \in Metagraphs, soft \in BOOLEAN :
       \E fail_at \in FailPoints(neurons) :
         /\ soft => (fail_at # 0 /\ ~task.soft)
         /\ BatchItemSyncCall(
                SyncArgs(block_number, netuid, neurons, fail_at, now, 0, FALSE, FALSE),
                soft)
    /\ now' = now + 1
    /\ UNCHANGED <<extVars, settings, ep, det, retry>>

\* The soft time limit fires while the task is between two items (the loop
\* header) or after the loop: only the outer handlers are in scope.
BatchSoftLimit ==
    /\ task.kind = "batch" /\ task.pc = "running"
    /\ ~task.soft
    /\ task' = BatchOuterHandlers([task EXCEPT !.soft = TRUE], "SoftTimeLimitExceeded")
    /\ UNCHANGED <<extVars, db, seq, svc, now, hist, settings, ep, det, retry>>

\* Lines 446-470: the loop is over, the task returns its summary.
BatchReturn ==
    /\ task.kind = "batch" /\ task.pc = "running"
    /\ Len(task.items) = task.total
    /\ task' = [task EXCEPT !.pc = "completed"]
    /\ UNCHANGED <<extVars, db, seq, svc, now, hist, settings, ep, det, retry>>

\* ------------------------------- fast_backfill.py: _process_synchronously
\* One iteration of `for block_num, netuid in tasks`, lines 335-389: item
\* and excType as in BatchLoopBody. task.results holds the line the command
\* writes for the item: "no_data" is the stderr line of 347, "success" the
\* stdout line of 373, "error" the stderr line of 387.
BackfillLoopBody(tk, item, excType) ==
    LET logged == [tk EXCEPT !.items = Append(@, item)]
    IN  IF excType = ""
        THEN IF item.kind = "no_data"
             THEN [logged EXCEPT !.errors = @ + 1, !.results = Append(@, "no_data")]
             ELSE [logged EXCEPT !.processed = @ + 1,
                                 !.results = Append(@, "success")]
        ELSE [logged EXCEPT !.errors = @ + 1, !.results = Append(@, "error")]

\* _process_synchronously up to the loop: the list of tasks and the
\* connection; a connection error leaves the command through its caller.
BackfillStart ==
    /\ task.pc = "idle"
    /\ \E total \in 1..MaxItems, connected \in BOOLEAN :
         task' = IF connected
                 THEN [TaskIdle EXCEPT !.kind = "backfill", !.pc = "running",
                                       !.total = total]
                 ELSE [TaskIdle EXCEPT !.kind = "backfill", !.pc = "raised",
                                       !.total = total,
                                       !.exc = [type |-> "ConnectionError",
                                                processed |-> 0, total |-> 0]]
    /\ UNCHANGED <<extVars, db, seq, svc, now, hist, settings, ep, det, retry>>

\* An item whose fetch returns None or a metagraph without uids, or raises.
BackfillItemFetch ==
    /\ task.kind = "backfill" /\ task.pc = "running"
    /\ Len(task.items) < task.total
    /\ now <= MaxCalls
    /\ \E block_num \in SyncBlocks, netuid \in SyncNetuids,
          fetch \in {"no_data", "FetchError"} :
         task' = BackfillLoopBody(task,
                     [block |-> block_num, netuid |-> netuid, kind |-> fetch,
                      fault |-> IF fetch = "no_data" THEN "none" ELSE fetch,
                      alone_ok |-> FALSE],
                     IF fetch = "no_data" THEN "" ELSE fetch)
    /\ now' = now + 1
    /\ UNCHANGED <<extVars, db, seq, svc, hist, settings, ep, det, retry>>

\* The rest of an item's iteration once sync_metagraph has ended in c.
BackfillItemSynced(args, h, c) ==
    /\ db' = c.db
    /\ seq' = c.seq
    /\ svc' = c.svc
    /\ task' = BackfillLoopBody(task,
                   [block |-> args.block_number, netuid |-> args.netuid,
                    kind |-> "sync",
                    fault |-> IF args.fail_at = 0 THEN "none" ELSE "DataError",
                    alone_ok |-> ~c.raised],
                   IF ~c.raised THEN "" ELSE "DataError")
    /\ hist' = RecordCall(h, "apy", args, c, db, seq)

\* Lines 363-369: a new APYSyncService for the item, and its sync_metagraph.
BackfillItemSyncCall(args) ==
    BackfillItemSynced(args, NewInstance(hist),
                       sync_metagraph("apy", Context(db, seq, FreshService), args, now))

\* An item whose fetch returns a metagraph with neurons.
BackfillItemSync ==
    /\ task.kind = "backfill" /\ task.pc = "running"
    /\ Len(task.items) < task.total
    /\ now <= MaxCalls
    /\ \E block_num \in SyncBlocks, netuid \in SyncNetuids, neurons \in Metagraphs :
       \E fail_at \in FailPoints(neurons) :
         BackfillItemSyncCall(
             SyncArgs(block_num, netuid, neurons, fail_at, now, 0, FALSE, FALSE))
    /\ now' = now + 1
    /\ UNCHANGED <<extVars, settings, ep, det, retry>>

\* Lines 391-394: Ctrl+C during the loop, or the loop is over; the command
\* writes its "Completed" line.
BackfillReturn ==
    /\ task.kind = "backfill" /\ task.pc = "running"
    /\ task' = [task EXCEPT !.pc = "completed"]
    /\ UNCHANGED <<extVars, db, seq, svc, now, hist, settings, ep, det, retry>>

\* The end of a single-item task whose sync_metagraph has ended in c; h is
\* the history with the task's new service object.
SingleTaskSynced(mode, args, h, c) ==
    /\ db' = c.db
    /\ seq' = c.seq
    /\ svc' = c.svc
    /\ task' = [TaskIdle EXCEPT !.kind = mode,
                                !.pc = IF c.raised THEN "raised" ELSE "completed",
                                !.processed = IF c.raised THEN 0 ELSE 1]
    /\ hist' = RecordCall(h, mode, args, c, db, seq)

SingleTaskCall(mode, args) ==
    SingleTaskSynced(mode, args, NewInstance(hist),
                     sync_metagraph(mode, Context(db, seq, FreshService), args, now))

\* A single-item task with its own service object: fast_apy_sync (mode
\* "apy") or store_metagraph (mode "full"). An exception of the sync
\* propagates out of the task.
SingleTask(mode, block_number, netuid, neurons, fail_at, weights, mechanisms) ==
    SingleTaskCall(mode,
                   SyncArgs(block_number, netuid, neurons, fail_at, now,
                            IF mode = "full" THEN block_number ELSE 0,
                            weights, mechanisms))

fast_apy_sync ==
    /\ task.pc # "running"
    /\ now <= MaxCalls
    /\ \E block_number \in SyncBlocks, netuid \in SyncNetuids, neurons \in Metagraphs :
       \E fail_at \in FailPoints(neurons) :
         SingleTask("apy", block_number, netuid, neurons, fail_at, FALSE, FALSE)
    /\ now' = now + 1
    /\ UNCHANGED <<extVars, settings, ep, det, retry>>

store_metagraph ==
    /\ task.pc # "running"
    /\ now <= MaxCalls
    /\ \E block_number \in SyncBlocks, netuid \in SyncNetuids, neurons \in Metagraphs :
       \E fail_at \in FailPoints(neurons) :
         SingleTask("full", block_number, netuid, neurons, fail_at, TRUE, TRUE)
    /\ now' = now + 1
    /\ UNCHANGED <<extVars, settings, ep, det, retry>>

\* The end of a replay whose sync_metagraph has ended in c.
Resynced(h, c) ==
    /\ db' = c.db
    /\ seq' = c.seq
    /\ svc' = c.svc
    /\ hist' = RecordCall(h, hist.last.mode, hist.last.args, c, db, seq)

\* A caller runs sync_metagraph again with the arguments of the previous
\* call (a replay of the same snapshot), on the same service object or on a
\* new one of the same class.
Resync ==
    /\ task.pc # "running"
    /\ now <= MaxCalls
    /\ hist.last.mode # "none"
    /\ \E same \in BOOLEAN :
         Resynced(IF same THEN hist ELSE NewInstance(hist),
                  sync_metagraph(hist.last.mode,
                                 Context(db, seq, IF same THEN svc ELSE FreshService),
                                 hist.last.args, now))
    /\ task' = [TaskIdle EXCEPT !.kind = "replay", !.pc = "completed"]
    /\ now' = now + 1
    /\ UNCHANGED <<extVars, settings, ep, det, retry>>

\* ------------------------------------------------------ specifications
SettingsDefault == [TEMPO |-> 3, NUM_BLOCK_DUMPS_PER_EPOCH |-> 2, SUBNET_OWNER_CUT |-> 9]

\* --------------------------------- block_tasks.py, metagraph_service.py
\* MetagraphService.netuids_to_sync: the configured list, or every netuid
\* 1..128 when the list is empty.
netuids_to_sync ==
    IF settings.METAGRAPH_NETUIDS # <<>> THEN SeqRange(settings.METAGRAPH_NETUIDS)
    ELSE 1..128

\* The functions registered with @block_task.
BlockTasks == {"store_metagraph", "sync_apy_data"}

\* is_dumpable_block that is true of every block.
condition_always(task_name, block_number, netuid) == TRUE

\* condition= of the two registrations: the same lambda.
block_task_condition(task_name, block_number, netuid) ==
    is_dumpable_block(block_number, netuid)

\* args= of the two registrations: one entry {"netuid": n} per netuid to sync.
block_task_args(task_name) == netuids_to_sync

\* disp.head: the last block the dumper has handled (-1: none yet);
\* disp.dispatched: the (task, block, netuid) runs it has sent to the queue.
DispIdle == [head |-> -1, dispatched |-> {}]

\* The block dumper handles the next block of the chain: for each registered
\* task and each entry of its args it evaluates the condition and, when it
\* is true, sends the task for (block_number, netuid).
OnNewBlock ==
    /\ disp.head < MaxBlock
    /\ LET block_number == disp.head + 1
           sent == UNION {{<<t, block_number, n>> :
                             n \in {m \in block_task_args(t) :
                                      block_task_condition(t, block_number, m)}} :
                          t \in BlockTasks}
       IN  disp' = [head |-> block_number, dispatched |-> disp.dispatched \cup sent]
    /\ UNCHANGED <<settings, ep, det, retry, syncVars, hp, apy, sw, lk, tailVars>>

\* ------------------------------------ extrinsics/hyperparam_service.py
\* Python's None is the empty tuple and a JSON value v is <<v>>, so that the
\* values 0 and False are values and not None.
None == <<>>
Some(v) == <<v>>

\* HYPERPARAM_FUNCTION_MAP, three of its entries.
HYPERPARAM_FUNCTION_MAP ==
    [sudo_set_tempo |-> "tempo", sudo_set_kappa |-> "kappa",
     sudo_set_alpha_values |-> "alpha_values"]

get_hyperparam_name(call_function) ==
    IF call_function \in DOMAIN HYPERPARAM_FUNCTION_MAP
    THEN Some(HYPERPARAM_FUNCTION_MAP[call_function])
    ELSE None

\* The tables: params is SubnetHyperparam (unique on netuid, param_name),
\* history is SubnetHyperparamHistory in the order of its ids.
ParamRows(h, netuid, param_name) ==
    {r \in h.params : r.netuid = netuid /\ r.param_name = param_name}

get_previous_value(h, netuid, param_name) ==
    LET rows == ParamRows(h, netuid, param_name)
    IN  IF rows = {} THEN None ELSE (CHOOSE r \in rows : TRUE).value

\* update_hyperparam in which an existing record is not saved.
update_without_save(h, netuid, param_name, value, block_number, success) ==
    LET rows == ParamRows(h, netuid, param_name)
        previous_value == IF rows = {} THEN None ELSE (CHOOSE r \in rows : TRUE).value
    IN  [h EXCEPT !.params = IF rows = {}
                             THEN @ \cup {[netuid |-> netuid, param_name |-> param_name,
                                           value |-> value,
                                           last_block_number |-> block_number]}
                             ELSE @,
                  !.history = Append(@, [netuid |-> netuid, param_name |-> param_name,
                                         old_value |-> previous_value,
                                         new_value |-> value,
                                         block_number |-> block_number,
                                         success |-> success]),
                  !.ret = previous_value]

\* update_hyperparam: get_or_create, the save of an existing record, the
\* history row; h.ret is the value it returns.
update_hyperparam(h, netuid, param_name, value, block_number, success) ==
    LET rows == ParamRows(h, netuid, param_name)
        created == rows = {}
        previous_value == IF created THEN None ELSE (CHOOSE r \in rows : TRUE).value
    IN  [h EXCEPT !.params = (@ \ rows) \cup
                                {[netuid |-> netuid, param_name |-> param_name,
                                  value |-> value, last_block_number |-> block_number]},
                  !.history = Append(@, [netuid |-> netuid, param_name |-> param_name,
                                         old_value |-> previous_value,
                                         new_value |-> value,
                                         block_number |-> block_number,
                                         success |-> success]),
                  !.ret = previous_value]

\* Lines 138-146: the value of the first argument that is not netuid.
RECURSIVE first_value(_, _)
first_value(call_args, i) ==
    IF i > Len(call_args) THEN None
    ELSE IF call_args[i].name = "netuid" THEN first_value(call_args, i + 1)
    ELSE call_args[i].value

\* The extrinsic returned as it came: no previous_values key.
Unenriched(h, extrinsic) ==
    [h EXCEPT !.ret = None,
              !.last = [extrinsic |-> extrinsic, enriched |-> FALSE,
                        previous_values |-> {}, before |-> [params |-> h.params,
                                                            history |-> h.history]]]

\* Lines 154-173 once update_hyperparam or get_previous_value has ended in
\* after (after.ret is previous_value): the copy with previous_values.
Enriched(h, extrinsic, param_name, after) ==
    [after EXCEPT !.last = [extrinsic |-> extrinsic, enriched |-> TRUE,
                            previous_values |-> {<<param_name, after.ret>>},
                            before |-> [params |-> h.params, history |-> h.history]]]

\* enrich_extrinsic_with_previous_values.
enrich_extrinsic_with_previous_values(h, extrinsic) ==
    IF extrinsic.call_module # "AdminUtils" \/ extrinsic.netuid = None
    THEN Unenriched(h, extrinsic)
    ELSE IF get_hyperparam_name(extrinsic.call_function) = None
    THEN Unenriched(h, extrinsic)
    ELSE IF first_value(extrinsic.call_args, 1) = None
    THEN Unenriched(h, extrinsic)
    ELSE IF extrinsic.success
    THEN Enriched(h, extrinsic, get_hyperparam_name(extrinsic.call_function)[1],
                  update_hyperparam(h, extrinsic.netuid[1],
                      get_hyperparam_name(extrinsic.call_function)[1],
                      first_value(extrinsic.call_args, 1),
                      extrinsic.block_number, TRUE))
    ELSE Enriched(h, extrinsic, get_hyperparam_name(extrinsic.call_function)[1],
                  [h EXCEPT !.ret =
                      get_previous_value(h, extrinsic.netuid[1],
                          get_hyperparam_name(extrinsic.call_function)[1])])

NoExtrinsic ==
    [call_module |-> "", call_function |-> "", netuid |-> None, block_number |-> 0,
     success |-> FALSE, call_args |-> <<>>]

HpIdle ==
    [params |-> {}, history |-> <<>>, ret |-> None,
     last |-> [extrinsic |-> NoExtrinsic, enriched |-> FALSE, previous_values |-> {},
               before |-> [params |-> {}, history |-> <<>>]]]

\* The values an extrinsic sets: 0 is a value.
ParamValues == 0..MaxValue

\* call_args with the netuid argument first and one value argument.
SetArgs(netuid, value) ==
    <<[name |-> "netuid", value |-> netuid], [name |-> "value", value |-> value]>>

\* The extrinsics of a block: changes of two tracked parameters on two
\* subnets, succeeded or failed; a change with two values (alpha_low,
\* alpha_high); and one of each kind the function passes over: another
\* module, no netuid, an untracked function, no value.
Extrinsics(block_number) ==
    {[call_module |-> "AdminUtils", call_function |-> f, netuid |-> Some(n),
      block_number |-> block_number, success |-> ok,
      call_args |-> SetArgs(Some(n), Some(v))] :
        f \in {"sudo_set_tempo", "sudo_set_kappa"}, n \in 1..MaxNetuid,
        ok \in BOOLEAN, v \in ParamValues}
    \cup
    {[call_module |-> "AdminUtils", call_function |-> "sudo_set_alpha_values",
      netuid |-> Some(1), block_number |-> block_number, success |-> TRUE,
      call_args |-> <<[name |-> "alpha_low", value |-> Some(0)],
                      [name |-> "netuid", value |-> Some(1)],
                      [name |-> "alpha_high", value |-> Some(1)]>>],
     [call_module |-> "SubtensorModule", call_function |-> "sudo_set_tempo",
      netuid |-> Some(1), block_number |-> block_number, success |-> TRUE,
      call_args |-> SetArgs(Some(1), Some(1))],
     [call_module |-> "AdminUtils", call_function |-> "sudo_set_tempo",
      netuid |-> None, block_number |-> block_number, success |-> TRUE,
      call_args |-> <<[name |-> "value", value |-> Some(1)]>>],
     [call_module |-> "AdminUtils", call_function |-> "sudo_set_min_stake",
      netuid |-> Some(1), block_number |-> block_number, success |-> TRUE,
      call_args |-> SetArgs(Some(1), Some(1))],
     [call_module |-> "AdminUtils", call_function |-> "sudo_set_tempo",
      netuid |-> Some(1), block_number |-> block_number, success |-> TRUE,
      call_args |-> <<[name |-> "netuid", value |-> Some(1)]>>],
     [call_module |-> "AdminUtils", call_function |-> "sudo_set_tempo",
      netuid |-> Some(1), block_number |-> block_number, success |-> TRUE,
      call_args |-> SetArgs(Some(1), None)]}

\* One call of enrich_extrinsic_with_previous_values, on an extrinsic of the
\* next block.
Enrich ==
    /\ hp.last.extrinsic.block_number < MaxEnrich
    /\ \E extrinsic \in Extrinsics(hp.last.extrinsic.block_number + 1) :
         hp' = enrich_extrinsic_with_previous_values(hp, extrinsic)
    /\ UNCHANGED <<settings, ep, det, retry, syncVars, disp, apy, sw, lk, tailVars>>

\* ------------------------------------ core/storage: writer.py, backends
\* The object at the writer's key: absent, or its bytes.
NoObject == [exists |-> FALSE, data |-> <<>>]
Object(data) == [exists |-> TRUE, data |-> data]

\* StorageBackend.store: FileSystemStorageBackend writes the file,
\* S3StorageBackend puts the object.
backend_store(object, data) == Object(data)

\* StorageBackend.append. FileSystemStorageBackend opens the file "ab";
\* S3StorageBackend reads an existing object and stores it with the data
\* added, and stores the data alone when there is none.
backend_append(backend, object, data) ==
    IF backend = "filesystem"
    THEN Object(object.data \o data)
    ELSE IF object.exists
         THEN backend_store(object, object.data \o data)
         ELSE backend_store(object, data)

\* flush that never records its first flush: a store-mode writer stores at
\* every flush.
flush_without_flushed_flag(w) ==
    IF w.buffer = <<>> THEN w
    ELSE IF w.mode = "append"
    THEN [w EXCEPT !.object = backend_append(w.backend, @, w.buffer),
                   !.buffer = <<>>, !.flushes = @ + 1]
    ELSE [w EXCEPT !.object = backend_store(@, w.buffer),
                   !.buffer = <<>>, !.flushes = @ + 1]

\* StorageWriter.flush; w.flushes counts the flushes that reached storage.
flush(w) ==
    IF w.buffer = <<>> THEN w
    ELSE IF w.mode = "append" \/ w.flushed
    THEN [w EXCEPT !.object = backend_append(w.backend, @, w.buffer),
                   !.buffer = <<>>, !.flushes = @ + 1]
    ELSE [w EXCEPT !.object = backend_store(@, w.buffer),
                   !.flushed = TRUE,
                   !.buffer = <<>>, !.flushes = @ + 1]

\* StorageWriter.write: the buffer is extended and flushed when it has
\* reached buffersize; w.written is every byte passed to write, in order.
write_buffered(w) ==
    IF Len(w.buffer) >= w.buffersize THEN flush(w) ELSE w

write(w, data) ==
    write_buffered([w EXCEPT !.buffer = @ \o data, !.written = @ \o data,
                             !.writes = @ + 1])

\* The bytes of the model and the data of one write call.
Bytes == {1, 2}
WriteData == UNION {[1..n -> Bytes] : n \in 0..MaxData}

\* A constructed writer (__init__) over a backend whose key is absent, an
\* empty object, or an object with content; previous is that object.
NewWriter(backend, mode, buffersize, object) ==
    [pc |-> "new", backend |-> backend, mode |-> mode, buffersize |-> buffersize,
     buffer |-> <<>>, flushed |-> FALSE, locked |-> FALSE,
     object |-> object, previous |-> object,
     written |-> <<>>, writes |-> 0, flushes |-> 0]

SwIdle == NewWriter("filesystem", "append", 1, NoObject)

\* __enter__: the key's lock is acquired.
WriterEnter ==
    /\ sw.pc = "new"
    /\ sw' = [sw EXCEPT !.pc = "open", !.locked = TRUE]
    /\ UNCHANGED <<settings, ep, det, retry, syncVars, disp, hp, apy, lk, tailVars>>

\* writer.write(data) inside the context.
WriterWrite ==
    /\ sw.pc = "open" /\ sw.writes < MaxWrites
    /\ \E data \in WriteData : sw' = write(sw, data)
    /\ UNCHANGED <<settings, ep, det, retry, syncVars, disp, hp, apy, lk, tailVars>>

\* writer.flush() inside the context.
WriterFlush ==
    /\ sw.pc = "open"
    /\ sw' = flush(sw)
    /\ UNCHANGED <<settings, ep, det, retry, syncVars, disp, hp, apy, lk, tailVars>>

\* __exit__: flush, then the lock is released.
WriterExit ==
    /\ sw.pc = "open"
    /\ sw' = [flush(sw) EXCEPT !.pc = "closed", !.locked = FALSE]
    /\ UNCHANGED <<settings, ep, det, retry, syncVars, disp, hp, apy, lk, tailVars>>

\* ------------------------------------------------- core/storage/locks.py
Workers == 1..MaxWorkers
LockKeys == {"k1", "k2", "k3"}

\* FlockLock._lock_path: md5(key) % _MAX_FILES, the number of the lock file
\* in the pool; two keys of the model share a file, as keys whose hashes are
\* congruent do.
_lock_path(key) == IF key = "k2" THEN 2 ELSE 1

LockFiles == {_lock_path(k) : k \in LockKeys}

\* Lock.__init__ / FlockLock.__init__; pc is "out" when the worker is in no
\* call of the object, "polling" inside _acquire; raised is the exception
\* of the last call.
NewLock(key) ==
    [key |-> key, _acquired |-> FALSE, _file |-> FALSE, pc |-> "out",
     deadline |-> 0, raised |-> ""]

\* FakeLock._acquire in the place of flock: every request is granted.
flock_granted(table, file_number, w) ==
    [ok |-> TRUE, table |-> [table EXCEPT ![file_number] = w]]

\* fcntl.flock(file, LOCK_EX | LOCK_NB) on worker w's own open file: granted
\* when no other open file holds the lock, BlockingIOError otherwise.
flock_ex_nb(table, file_number, w) ==
    IF table[file_number] \in {0, w}
    THEN [ok |-> TRUE, table |-> [table EXCEPT ![file_number] = w]]
    ELSE [ok |-> FALSE, table |-> table]

\* fcntl.flock(file, LOCK_UN) and close.
flock_un(table, file_number, w) ==
    IF table[file_number] = w THEN [table EXCEPT ![file_number] = 0] ELSE table

LkIdle ==
    [now |-> 0, flock |-> [f \in LockFiles |-> 0],
     locks |-> [w \in Workers |-> NewLock("k1")]]

\* Lock.acquire(timeout) up to the loop of _acquire: RuntimeError when the
\* object is acquired, else the lock file is opened and the deadline set.
AcquireCall ==
    /\ \E w \in Workers, timeout \in 0..MaxTimeout :
         /\ lk.locks[w].pc = "out"
         /\ lk' = IF lk.locks[w]._acquired
                  THEN [lk EXCEPT !.locks[w].raised = "RuntimeError"]
                  ELSE [lk EXCEPT !.locks[w]._file = TRUE,
                                  !.locks[w].deadline = lk.now + timeout,
                                  !.locks[w].pc = "polling",
                                  !.locks[w].raised = ""]
    /\ UNCHANGED <<settings, ep, det, retry, syncVars, disp, hp, apy, sw, tailVars>>

\* One iteration of `while True` in _acquire once flock has answered r:
\* return (and acquire sets _acquired), or TimeoutError at the deadline, or
\* sleep.
PollAnswered(w, r) ==
    lk' = IF r.ok
          THEN [lk EXCEPT !.flock = r.table,
                          !.locks[w]._acquired = TRUE,
                          !.locks[w].pc = "out"]
          ELSE IF lk.now >= lk.locks[w].deadline
          THEN [lk EXCEPT !.locks[w]._file = FALSE,
                          !.locks[w].pc = "out",
                          !.locks[w].raised = "TimeoutError"]
          ELSE lk

Poll ==
    /\ \E w \in Workers :
         /\ lk.locks[w].pc = "polling"
         /\ PollAnswered(w, flock_ex_nb(lk.flock, _lock_path(lk.locks[w].key), w))
    /\ UNCHANGED <<settings, ep, det, retry, syncVars, disp, hp, apy, sw, tailVars>>

\* Lock.release: nothing when the object is not acquired, else unlock, close
\* the file, clear _acquired.
Release ==
    /\ \E w \in Workers :
         /\ lk.locks[w].pc = "out"
         /\ lk.locks[w]._acquired
         /\ lk' = [lk EXCEPT !.flock = flock_un(@, _lock_path(lk.locks[w].key), w),
                             !.locks[w]._file = FALSE,
                             !.locks[w]._acquired = FALSE]
    /\ UNCHANGED <<settings, ep, det, retry, syncVars, disp, hp, apy, sw, tailVars>>

\* time.perf_counter() advances.
Tick ==
    /\ lk.now < MaxTime
    /\ lk' = [lk EXCEPT !.now = @ + 1]
    /\ UNCHANGED <<settings, ep, det, retry, syncVars, disp, hp, apy, sw, tailVars>>

\* ------------------------- extrinsics/hyperparam_service.py, concurrently
\* update_hyperparam run by several processes in autocommit: each ORM call
\* is one statement of its own, and another process's statements may come
\* between two of them.
Procs == 1..MaxProcs
CuNetuids == {1, 2}

NoUpdate ==
    [pc |-> "idle", netuid |-> 0, value |-> None, block_number |-> 0,
     created |-> FALSE, record |-> None, previous_value |-> None]

CuIdle == [params |-> {}, history |-> <<>>, procs |-> [p \in Procs |-> NoUpdate]]

\* Lines 77-81: SubnetHyperparam.objects.get_or_create.
UpdateGetOrCreate ==
    /\ \E p \in Procs, netuid \in CuNetuids, v \in ParamValues :
         LET rows == ParamRows(cu, netuid, "tempo")
             block_number == Len(cu.history) + 1
         IN  /\ cu.procs[p].pc \in {"idle", "done"}
             /\ Len(cu.history) < MaxEnrich
             /\ cu' = [cu EXCEPT
                    !.params = IF rows = {}
                               THEN @ \cup {[netuid |-> netuid, param_name |-> "tempo",
                                             value |-> Some(v),
                                             last_block_number |-> block_number]}
                               ELSE @,
                    !.procs[p] = [pc |-> "got", netuid |-> netuid, value |-> Some(v),
                                  block_number |-> block_number, created |-> rows = {},
                                  record |-> IF rows = {} THEN Some(v)
                                             ELSE (CHOOSE r \in rows : TRUE).value,
                                  previous_value |-> None]]
    /\ UNCHANGED <<settings, ep, det, retry, syncVars, disp, hp, apy, sw, lk, col>>

\* Lines 83-87: `if not created`: previous_value is the value the record
\* was read with, and record.save() writes the new one.
UpdateSave ==
    /\ \E p \in Procs :
         LET u == cu.procs[p]
         IN  /\ u.pc = "got"
             /\ cu' = IF u.created
                      THEN [cu EXCEPT !.procs[p].pc = "saved"]
                      ELSE [cu EXCEPT
                              !.params = (@ \ ParamRows(cu, u.netuid, "tempo")) \cup
                                         {[netuid |-> u.netuid, param_name |-> "tempo",
                                           value |-> u.value,
                                           last_block_number |-> u.block_number]},
                              !.procs[p].previous_value = u.record,
                              !.procs[p].pc = "saved"]
    /\ UNCHANGED <<settings, ep, det, retry, syncVars, disp, hp, apy, sw, lk, col>>

\* Lines 90-99 and 110: SubnetHyperparamHistory.objects.create and the
\* return of previous_value.
UpdateHistory ==
    /\ \E p \in Procs :
         LET u == cu.procs[p]
         IN  /\ u.pc = "saved"
             /\ cu' = [cu EXCEPT
                          !.history = Append(@, [netuid |-> u.netuid,
                                                 param_name |-> "tempo",
                                                 old_value |-> u.previous_value,
                                                 new_value |-> u.value,
                                                 block_number |-> u.block_number,
                                                 success |-> TRUE]),
                          !.procs[p].pc = "done"]
    /\ UNCHANGED <<settings, ep, det, retry, syncVars, disp, hp, apy, sw, lk, col>>

\* ------------------------------------ management/commands/collect_apy.py
\* What a chain query answers: get_metagraph_info returns a MetagraphInfo
\* or None, or raises ValueError or another exception; neurons_lite returns
\* neurons (or none) or raises.
InfoAnswers == {"info", "None", "ValueError", "Exception"}
NeuronAnswers == {"neurons", "empty", "Exception"}

\* A query result: whether it raised, and the chain calls made, in order.
Returned(calls) == [raised |-> FALSE, calls |-> calls]
Raised(calls) == [raised |-> TRUE, calls |-> calls]

\* Command._query_legacy, after the calls made before it.
_query_legacy(calls, neurons) ==
    IF neurons = "Exception"
    THEN Raised(Append(calls, "neurons_lite"))
    ELSE Returned(Append(calls, "neurons_lite"))

\* Command._query_modern from the fallback to the full metagraph on.
query_full(calls, full, neurons) ==
    IF full = "info"
    THEN Returned(Append(calls, "full"))
    ELSE _query_legacy(Append(calls, "full"), neurons)

\* Command._query_modern: the selective query falls through on None and on
\* ValueError only.
_query_modern(selective, full, neurons) ==
    CASE selective = "info"      -> Returned(<<"selective">>)
      [] selective = "Exception" -> Raised(<<"selective">>)
      [] OTHER                   -> query_full(<<"selective">>, full, neurons)

ColIdle ==
    [pc |-> "idle", api_boundary_block |-> 0, i |-> 0, legacy_count |-> 0,
     modern_count |-> 0, total_queried |-> 0, failed_epochs |-> <<>>, queries |-> <<>>]

\* _collect up to the loop over the epochs.
CollectStart ==
    /\ col.pc = "idle"
    /\ \E api_boundary_block \in 1..(MaxCollect + 1) :
         col' = [ColIdle EXCEPT !.pc = "loop", !.api_boundary_block = api_boundary_block]
    /\ UNCHANGED <<settings, ep, det, retry, syncVars, disp, hp, apy, sw, lk, cu>>

\* One iteration of `for i, block_num in enumerate(epochs)` once the query
\* has ended as r.
CollectLoopBody(c, block_num, is_legacy, r) ==
    [c EXCEPT !.i = block_num,
              !.legacy_count = IF is_legacy /\ ~r.raised THEN @ + 1 ELSE @,
              !.modern_count = IF ~is_legacy /\ ~r.raised THEN @ + 1 ELSE @,
              !.total_queried = IF r.raised THEN @ ELSE @ + 1,
              !.failed_epochs = IF r.raised THEN Append(@, block_num) ELSE @,
              !.queries = Append(@, [block |-> block_num, is_legacy |-> is_legacy,
                                     raised |-> r.raised, calls |-> r.calls])]

CollectEpoch ==
    /\ col.pc = "loop"
    /\ col.i < MaxCollect
    /\ \E selective \in InfoAnswers, full \in InfoAnswers, neurons \in NeuronAnswers :
         LET block_num == col.i + 1
             is_legacy == block_num < col.api_boundary_block
         IN  col' = CollectLoopBody(col, block_num, is_legacy,
                        IF is_legacy THEN _query_legacy(<<>>, neurons)
                        ELSE _query_modern(selective, full, neurons))
    /\ UNCHANGED <<settings, ep, det, retry, syncVars, disp, hp, apy, sw, lk, cu>>

\* The loop is over: metadata and failed_epochs.json are written.
CollectReturn ==
    /\ col.pc = "loop"
    /\ col.i = MaxCollect
    /\ col' = [col EXCEPT !.pc = "done"]
    /\ UNCHANGED <<settings, ep, det, retry, syncVars, disp, hp, apy, sw, lk, cu>>

TailIdle == cu = CuIdle /\ col = ColIdle

ExtIdle ==
    disp = DispIdle /\ hp = HpIdle /\ apy = ApyIdle /\ sw = SwIdle /\ lk = LkIdle /\ TailIdle

vars == <<settings, ep, det, retry, db, seq, svc, task, now, hist, disp, hp, apy, sw, lk, cu, col>>

SyncIdle ==
    /\ db = EmptyDb
    /\ seq = 0
    /\ svc = FreshService
    /\ task = TaskIdle
    /\ now = 1
    /\ hist = HistInit

\* The settings of the docstring of get_dumpable_blocks (utils.py, 12-13).
SettingsDocstring ==
    [TEMPO |-> 360, NUM_BLOCK_DUMPS_PER_EPOCH |-> 3, SUBNET_OWNER_CUT |-> 9]

\* Epoch arithmetic, the backfill enumeration and the dumpable-block test.
EpochInit ==
    /\ settings \in [TEMPO : 1..MaxTempo, NUM_BLOCK_DUMPS_PER_EPOCH : 1..MaxDumps,
                   SUBNET_OWNER_CUT : {9}] \cup {SettingsDocstring}
    /\ ep = EpIdle
    /\ det = DetIdle
    /\ retry = RetryIdle
    /\ SyncIdle
    /\ ExtIdle

EpochNext == EnumCall \/ EnumStep \/ EnumReturn \/ DumpableCall

EpochSpec == EpochInit /\ [][EpochNext]_vars

\* API-era boundary detection.
DetectInit ==
    /\ settings = SettingsDefault
    /\ ep = EpIdle
    /\ det = DetIdle
    /\ retry = RetryIdle
    /\ SyncIdle
    /\ ExtIdle

DetectNext == DetectCall \/ TestEnd \/ TestStart \/ BisectStep \/ BisectReturn

DetectSpec == DetectInit /\ [][DetectNext]_vars

\* Connection retry.
RetryInit ==
    /\ settings = SettingsDefault
    /\ ep = EpIdle
    /\ det = DetIdle
    /\ retry = RetryIdle
    /\ SyncIdle
    /\ ExtIdle

RetryNext == RetryCall \/ Attempt \/ RetryFallThrough

RetrySpec == RetryInit /\ [][RetryNext]_vars

\* The batch task: fast_apy_sync_batch, one service object for its items.
BatchInit ==
    /\ settings = SettingsDefault
    /\ ep = EpIdle
    /\ det = DetIdle
    /\ retry = RetryIdle
    /\ SyncIdle
    /\ ExtIdle

\* A store that an earlier, committed APY sync has written: block 1 of
\* subnet 1 with the validator hk1 at uid 7.
SeedSync ==
    sync_metagraph("apy", Context(EmptyDb, 0, FreshService),
        SyncArgs(1, 1, <<[uid |-> 7, hotkey |-> "hk1", coldkey |-> "ck1",
                          validator_permit |-> TRUE, dividend |-> 1, incentive |-> 0]>>,
                 0, 1, 0, FALSE, FALSE),
        1)

\* The batch task started on that store.
WarmBatchInit ==
    /\ settings = SettingsDefault
    /\ ep = EpIdle
    /\ det = DetIdle
    /\ retry = RetryIdle
    /\ db = SeedSync.db
    /\ seq = SeedSync.seq
    /\ svc = FreshService
    /\ task = TaskIdle
    /\ now = 1
    /\ hist = HistInit
    /\ ExtIdle

BatchNext ==
    \/ BatchStart \/ BatchItemFetch \/ BatchItemSync \/ BatchSoftLimit \/ BatchReturn

BatchSpec == BatchInit /\ [][BatchNext]_vars

WarmBatchSpec == WarmBatchInit /\ [][BatchNext]_vars

\* The synchronous backfill command: a service object for each item.
BackfillInit ==
    /\ settings = SettingsDefault
    /\ ep = EpIdle
    /\ det = DetIdle
    /\ retry = RetryIdle
    /\ SyncIdle
    /\ ExtIdle

BackfillNext ==
    \/ BackfillStart \/ BackfillItemFetch \/ BackfillItemSync \/ BackfillReturn

BackfillSpec == BackfillInit /\ [][BackfillNext]_vars

\* The single-item tasks fast_apy_sync and store_metagraph, each with its
\* own service object, and replays of a sync.
SyncInit ==
    /\ settings = SettingsDefault
    /\ ep = EpIdle
    /\ det = DetIdle
    /\ retry = RetryIdle
    /\ SyncIdle
    /\ ExtIdle

SyncNext ==
    \/ fast_apy_sync \/ store_metagraph \/ Resync

SyncSpec == SyncInit /\ [][SyncNext]_vars

\* Ascending lists of netuids to track, the empty list among them.
NetuidLists == {sorted(S) : S \in SUBSET (0..MaxNetuid)}

\* The block dumper following the chain head.
DispatchInit ==
    /\ settings \in [TEMPO : 1..MaxTempo, NUM_BLOCK_DUMPS_PER_EPOCH : 1..MaxDumps,
                   SUBNET_OWNER_CUT : {9}, METAGRAPH_NETUIDS : NetuidLists]
    /\ ep = EpIdle
    /\ det = DetIdle
    /\ retry = RetryIdle
    /\ SyncIdle
    /\ disp = DispIdle
    /\ hp = HpIdle
    /\ apy = ApyIdle
    /\ sw = SwIdle
    /\ lk = LkIdle
    /\ TailIdle

DispatchNext == OnNewBlock

DispatchSpec == DispatchInit /\ [][DispatchNext]_vars

\* The store as the sync_hyperparams command leaves it: current values and
\* no history.
HpSeeded ==
    [HpIdle EXCEPT !.params = {[netuid |-> 1, param_name |-> "tempo",
                                value |-> Some(1), last_block_number |-> 0]}]

\* Enrichment of hyperparameter extrinsics, one after the other.
HyperparamInit ==
    /\ settings = SettingsDefault
    /\ ep = EpIdle
    /\ det = DetIdle
    /\ retry = RetryIdle
    /\ SyncIdle
    /\ disp = DispIdle
    /\ hp \in {HpIdle, HpSeeded}
    /\ apy = ApyIdle
    /\ sw = SwIdle
    /\ lk = LkIdle
    /\ TailIdle

HyperparamNext == Enrich

HyperparamSpec == HyperparamInit /\ [][HyperparamNext]_vars

\* The APY formula on arguments of every sign.
ApyInit ==
    /\ settings = SettingsDefault
    /\ ep = EpIdle
    /\ det = DetIdle
    /\ retry = RetryIdle
    /\ SyncIdle
    /\ ExtIdle

ApyNext == ComputeDividendApy

ApySpec == ApyInit /\ [][ApyNext]_vars

\* One StorageWriter context over either backend.
WriterInit ==
    /\ settings = SettingsDefault
    /\ ep = EpIdle
    /\ det = DetIdle
    /\ retry = RetryIdle
    /\ SyncIdle
    /\ disp = DispIdle
    /\ hp = HpIdle
    /\ apy = ApyIdle
    /\ \E backend \in {"filesystem", "s3"}, mode \in {"append", "store"},
          buffersize \in 1..MaxBuffer, object \in {NoObject, Object(<<>>), Object(<<9>>)} :
         sw = NewWriter(backend, mode, buffersize, object)
    /\ lk = LkIdle
    /\ TailIdle

WriterNext == WriterEnter \/ WriterWrite \/ WriterFlush \/ WriterExit

WriterSpec == WriterInit /\ [][WriterNext]_vars

\* Workers with a FlockLock object each, on keys of their choice.
LockInit ==
    /\ settings = SettingsDefault
    /\ ep = EpIdle
    /\ det = DetIdle
    /\ retry = RetryIdle
    /\ SyncIdle
    /\ disp = DispIdle
    /\ hp = HpIdle
    /\ apy = ApyIdle
    /\ sw = SwIdle
    /\ \E keys \in [Workers -> LockKeys] :
         lk = [LkIdle EXCEPT !.locks = [w \in Workers |-> NewLock(keys[w])]]
    /\ TailIdle

LockNext == AcquireCall \/ Poll \/ Release \/ Tick

LockSpec == LockInit /\ [][LockNext]_vars

\* Processes that enrich successful extrinsics at the same time.
ConcurrentInit ==
    /\ settings = SettingsDefault
    /\ ep = EpIdle
    /\ det = DetIdle
    /\ retry = RetryIdle
    /\ SyncIdle
    /\ disp = DispIdle
    /\ hp = HpIdle
    /\ apy = ApyIdle
    /\ sw = SwIdle
    /\ lk = LkIdle
    /\ cu \in {CuIdle, [CuIdle EXCEPT !.params = HpSeeded.params]}
    /\ col = ColIdle

ConcurrentNext == UpdateGetOrCreate \/ UpdateSave \/ UpdateHistory

ConcurrentSpec == ConcurrentInit /\ [][ConcurrentNext]_vars

\* A collect_apy run over the epoch blocks 1..MaxCollect of one subnet.
CollectInit ==
    /\ settings = SettingsDefault
    /\ ep = EpIdle
    /\ det = DetIdle
    /\ retry = RetryIdle
    /\ SyncIdle
    /\ ExtIdle

CollectNext == CollectStart \/ CollectEpoch \/ CollectReturn

CollectSpec == CollectInit /\ [][CollectNext]_vars

\* ------------------------------------------------------------ properties
\* The hotkey addresses a sync writes.
SyncedHotkeys(mode, args) == {args.neurons[i].hotkey : i \in Synced(mode, args)}

\* The store without the last_seen column of Hotkey.
WithoutLastSeen(d) ==
    [d EXCEPT !.hotkeys = {[id |-> h.id, hotkey |-> h.hotkey, coldkey |-> h.coldkey] :
                              h \in d.hotkeys}]

\* C1: in both services, a sync in which an exception is raised after its
\* first writes leaves the store as it was before the call, and the
\* exception reaches the caller.
C1_AtomicRollback ==
    (hist.last.mode # "none" /\ hist.last.args.fail_at # 0)
        => hist.last.raised /\ db = hist.last.dbBefore

\* A full sync fails at its dump step, after the block, subnet, key, neuron,
\* snapshot and edge writes, on a store an earlier sync has filled; the APY
\* sync before it succeeded.
C1_Witness ==
    /\ hist.last.mode = "full" /\ hist.last.raised
    /\ hist.last.args.fail_at = Len(hist.last.args.neurons) + 3
    /\ hist.prev.mode = "apy" /\ ~hist.prev.raised
    /\ db = hist.last.dbBefore /\ db.snapshots # {}

C3_UidLatestObserved ==
    \A k \in DOMAIN hist.lastObs :
        hist.lastObs[k] # 0 =>
            LET rows == {n \in db.neurons :
                            /\ n.subnet = k[2]
                            /\ \E h \in db.hotkeys : h.id = n.hotkey /\ h.hotkey = k[1]}
            IN  /\ Cardinality(rows) = 1
                /\ \A n \in rows : n.uid = hist.lastObs[k]

\* C4: in a completed batch in which exactly one item raises a data error
\* during its sync and every other item syncs successfully on its own, the
\* other items are committed, processed counts them and errors is 1.
C4_PartialFailure ==
    LET failing == {i \in DOMAIN task.items : task.items[i].fault = "DataError"}
        others == DOMAIN task.items \ failing
    IN  (/\ task.kind = "batch" /\ task.pc = "completed"
         /\ Cardinality(failing) = 1
         /\ \A i \in others : /\ task.items[i].kind = "sync"
                              /\ task.items[i].fault = "none"
                              /\ task.items[i].alone_ok)
        => /\ task.processed = Cardinality(others)
           /\ task.errors = 1
           /\ \A i \in others : task.results[i] = "success"

\* C5: once the soft time limit has fired in a batch task, the task has
\* ended with TaskTimeLimitError(processed, total) and no item's result
\* records the limit as an error.
C5_SoftTimeLimit ==
    (task.kind = "batch" /\ task.soft)
        => /\ task.pc = "timelimit"
           /\ task.exc = [type |-> "TaskTimeLimitError",
                          processed |-> task.processed, total |-> task.total]
           /\ \A i \in DOMAIN task.results :
                task.items[i].fault = "SoftTimeLimitExceeded"
                    => task.results[i] # "error"

\* The dumps without the wall-clock columns of the task that wrote them.
DumpKeys(d) ==
    {[netuid |-> x.netuid, block |-> x.block, epoch_position |-> x.epoch_position] :
        x \in d.dumps}

\* C6: the full sync and the APY sync of one (block, netuid) and one chain
\* state, in either order, both succeed and leave one snapshot per
\* (neuron, block) and one dump per (netuid, block); the snapshots hold the
\* values the opposite order leaves, and so do the dumps' chain columns.
C6_OrderIndependent ==
    LET a == hist.prev
        b == hist.last
        r1 == sync_metagraph(b.mode, Context(a.dbBefore, a.seqBefore, FreshService),
                             b.args, b.args.started_at)
        r2 == sync_metagraph(a.mode, Context(r1.db, r1.seq, FreshService),
                             a.args, a.args.started_at)
    IN  (/\ a.mode # "none" /\ b.mode # "none" /\ a.mode # b.mode
         /\ a.args.block_number = b.args.block_number
         /\ a.args.netuid = b.args.netuid
         /\ a.args.neurons = b.args.neurons
         /\ a.args.fail_at = 0 /\ b.args.fail_at = 0)
        => /\ ~a.raised /\ ~b.raised
           /\ \A s, t \in db.snapshots :
                (s.neuron = t.neuron /\ s.block = t.block) => s = t
           /\ \A x, y \in db.dumps :
                (x.netuid = y.netuid /\ x.block = y.block) => x = y
           /\ db.snapshots = r2.db.snapshots
           /\ DumpKeys(db) = DumpKeys(r2.db)

\* C7: at most max_retries attempts; a success is the last attempt and
\* returns; when every attempt failed with a transient error the call raises
\* SubtensorConnectionError(attempts made, last error); a non-transient
\* error ends the call on its attempt, re-raised unchanged, with no sleep
\* after it.
C7_RetrySemantics ==
    LET n == Len(retry.log)
        last_error == IF n = 0 THEN NoError ELSE [msg |-> retry.log[n], id |-> n]
        failed(i) == retry.log[i] # "ok"
    IN  /\ n <= retry.max_retries
        /\ \A i \in 1..n : ~failed(i) => i = n /\ retry.pc = "returned"
        /\ retry.pc = "returned" => n >= 1 /\ ~failed(n)
        /\ (retry.pc = "raised" /\ \A i \in 1..n : failed(i) /\ is_transient(retry.log[i]))
             => /\ n = retry.max_retries
                /\ retry.exc = [type |-> "SubtensorConnectionError",
                                attempts |-> n, original_error |-> last_error]
        /\ \A i \in 1..n : (failed(i) /\ ~is_transient(retry.log[i]))
             => /\ i = n /\ retry.pc = "raised"
                /\ retry.exc = [type |-> "original", attempts |-> 0,
                                original_error |-> last_error]
                /\ Len(retry.sleeps) = n - 1

\* Three transient failures with max_retries = 3: the connection error.
C7_Witness ==
    /\ retry.pc = "raised" /\ retry.max_retries = SUBTENSOR_CONNECTION_RETRIES
    /\ retry.exc.type = "SubtensorConnectionError"
    /\ retry.exc.attempts = SUBTENSOR_CONNECTION_RETRIES
    /\ retry.exc.original_error.id = SUBTENSOR_CONNECTION_RETRIES
    /\ Len(retry.sleeps) = SUBTENSOR_CONNECTION_RETRIES - 1

\* C8: with a provider that succeeds exactly at blocks >= T the detector
\* returns T when start < T <= end, end + 1 when the query fails at end, and
\* None when the query succeeds at start.
C8_DetectBoundary ==
    det.pc = "done" =>
        /\ (det.start_block < det.T /\ det.T <= det.end_block)
              => det.result = ResBlock(det.T)
        /\ det.end_block < det.T => det.result = ResBlock(det.end_block + 1)
        /\ det.T <= det.start_block => det.result = ResNone

\* A boundary strictly inside the range, found by bisection.
C8_Witness ==
    /\ det.pc = "done" /\ det.probes >= 4
    /\ det.start_block + 1 < det.T /\ det.T < det.end_block
    /\ det.result = ResBlock(det.T)

\* C9: the enumeration returns, ascending and without duplicates, exactly
\* the blocks of [from_block, to_block] whose index in the epoch is 0.
C9_EpochStartsExact ==
    ep.pc = "done" =>
        ep.result = sorted({b \in ep.from_block..ep.to_block :
                               block_index_in_epoch(b, ep.netuid, settings.TEMPO) = 0})

\* C10: for every netuid and epoch, epoch.start + TEMPO is one of the
\* epoch's dumpable blocks and a block of that epoch, and is_dumpable_block
\* is true for it, whatever TEMPO and NUM_BLOCK_DUMPS_PER_EPOCH are.
C10_EpochEndDumpable ==
    /\ \A b \in 0..MaxBlock, n \in 0..MaxNetuid :
         LET epoch == get_epoch_containing_block(b, n)
             end_epoch == epoch.start + settings.TEMPO
         IN  /\ end_epoch \in SeqRange(get_dumpable_blocks(epoch))
             /\ epoch.start <= end_epoch /\ end_epoch < epoch.stop
             /\ get_epoch_containing_block(end_epoch, n) = epoch
             /\ is_dumpable_block(end_epoch, n)
    /\ (/\ ep.pc = "checked"
        /\ block_index_in_epoch(ep.query, ep.netuid, settings.TEMPO) = settings.TEMPO)
          => ep.dumpable

\* is_dumpable_block was asked about the last block of an epoch whose tempo
\* is not a multiple of the number of dumps.
C10_Witness ==
    /\ ep.pc = "checked" /\ ep.dumpable
    /\ block_index_in_epoch(ep.query, ep.netuid, settings.TEMPO) = settings.TEMPO
    /\ settings.TEMPO % settings.NUM_BLOCK_DUMPS_PER_EPOCH # 0
    /\ settings.NUM_BLOCK_DUMPS_PER_EPOCH > 1

\* The blocks the statement of C11 names: start + i * floor(TEMPO / NUM).
FlooredStepBlocks(epoch) ==
    {epoch.start + i * (settings.TEMPO \div settings.NUM_BLOCK_DUMPS_PER_EPOCH) :
        i \in 0..(settings.NUM_BLOCK_DUMPS_PER_EPOCH - 1)}
      \cup {epoch.start + settings.TEMPO}

\* C11 (as stated): the dumpable blocks of every epoch are the blocks
\* epoch.start + i * floor(TEMPO / NUM) for i = 0 .. NUM-1, plus
\* epoch.start + TEMPO, also when TEMPO is not a multiple of NUM.
C11_FlooredStep ==
    /\ \A b \in 0..MaxBlock, n \in 0..MaxNetuid :
         LET epoch == get_epoch_containing_block(b, n)
         IN  SeqRange(get_dumpable_blocks(epoch)) = FlooredStepBlocks(epoch)
    /\ ep.pc = "checked" =>
          (ep.dumpable <=>
             ep.query \in FlooredStepBlocks(get_epoch_containing_block(ep.query, ep.netuid)))

\* r is the floor of epoch.start + i * TEMPO / NUM, said without division.
IsFlooredSum(r, epoch, i) ==
    LET num == settings.NUM_BLOCK_DUMPS_PER_EPOCH
    IN  /\ num * (r - epoch.start) <= settings.TEMPO * i
        /\ settings.TEMPO * i < num * (r - epoch.start + 1)

\* C11 (amended): the dumpable blocks of every epoch are NUM+1 blocks: the
\* i-th (i = 0 .. NUM-1) is the floor of epoch.start + i * TEMPO / NUM, the
\* unfloored quotient being multiplied by i, and the last is
\* epoch.start + TEMPO; they are the floored-step blocks when NUM divides
\* TEMPO, and with TEMPO = 360 and 3 dumps the epoch starting at block 1000
\* gives 1000, 1120, 1240, 1360.
C11_FlooredSum ==
    /\ \A b \in 0..MaxBlock, n \in 0..MaxNetuid :
         LET epoch == get_epoch_containing_block(b, n)
             blocks == get_dumpable_blocks(epoch)
             num == settings.NUM_BLOCK_DUMPS_PER_EPOCH
         IN  /\ Len(blocks) = num + 1
             /\ \A i \in 0..(num - 1) : IsFlooredSum(blocks[i + 1], epoch, i)
             /\ blocks[num + 1] = epoch.start + settings.TEMPO
             /\ settings.TEMPO % num = 0 => SeqRange(blocks) = FlooredStepBlocks(epoch)
    /\ settings = SettingsDocstring =>
          get_dumpable_blocks([start |-> 1000, stop |-> 1361]) = <<1000, 1120, 1240, 1360>>
    /\ ep.pc = "checked" =>
          (ep.dumpable <=>
             LET epoch == get_epoch_containing_block(ep.query, ep.netuid)
             IN  \/ ep.query = epoch.start + settings.TEMPO
                 \/ \E i \in 0..(settings.NUM_BLOCK_DUMPS_PER_EPOCH - 1) :
                        IsFlooredSum(ep.query, epoch, i))

\* is_dumpable_block answered true for a block inside an epoch that is the
\* floor of a sum but no multiple of the floored step, with fewer dumps than
\* the tempo.
C11_Witness ==
    /\ ep.pc = "checked" /\ ep.dumpable
    /\ settings.NUM_BLOCK_DUMPS_PER_EPOCH < settings.TEMPO
    /\ settings.TEMPO % settings.NUM_BLOCK_DUMPS_PER_EPOCH # 0
    /\ ep.query \notin FlooredStepBlocks(get_epoch_containing_block(ep.query, ep.netuid))

\* C12: for every block, netuid and tempo the epoch containing the block is
\* a range of exactly tempo + 1 consecutive blocks with the block in it, and
\* the index of a block in its epoch is 0 exactly when the block is the
\* first block of the epoch containing it.
C12_EpochContainsBlock ==
    /\ \A b \in 0..MaxBlock, n \in 0..MaxNetuid :
         LET epoch == get_epoch_containing_block(b, n)
         IN  /\ epoch.stop - epoch.start = settings.TEMPO + 1
             /\ epoch.start <= b /\ b < epoch.stop
             /\ block_index_in_epoch(b, n, settings.TEMPO) = 0 <=> b = epoch.start
             /\ \A c \in epoch.start..(epoch.stop - 1) :
                    c >= 0 => get_epoch_containing_block(c, n) = epoch
    /\ ep.pc = "checked" =>
          LET epoch == get_epoch_containing_block(ep.query, ep.netuid)
          IN  /\ epoch.start <= ep.query /\ ep.query < epoch.stop
              /\ ep.query = epoch.start => ep.dumpable

\* is_dumpable_block was asked about a block of index 0 that is not block 0:
\* the first block of an epoch that began after the chain's first block.
C12_Witness ==
    /\ ep.pc = "checked" /\ ep.query > 0
    /\ block_index_in_epoch(ep.query, ep.netuid, settings.TEMPO) = 0
    /\ get_epoch_containing_block(ep.query, ep.netuid).start = ep.query
    /\ get_epoch_containing_block(ep.query, ep.netuid).stop = ep.query + settings.TEMPO + 1

\* C13: of the blocks handled so far, a task run was dispatched for
\* (block, netuid) exactly when the netuid is in the tracking set and the
\* block is one of the dumpable blocks of the epoch containing it for that
\* netuid; each new block adds exactly its own dumpable (block, netuid)
\* pairs, decided for each netuid on its own.
C13_DispatchIffDumpable ==
    /\ \A t \in BlockTasks, b \in 0..MaxBlock, n \in netuids_to_sync \cup (0..MaxNetuid) :
         <<t, b, n>> \in disp.dispatched <=>
            /\ b <= disp.head
            /\ n \in netuids_to_sync
            /\ b \in SeqRange(get_dumpable_blocks(get_epoch_containing_block(b, n)))
    /\ \A d \in disp.dispatched :
         d[1] \in BlockTasks /\ d[2] \in 0..disp.head /\ d[3] \in netuids_to_sync

\* One block was dumpable for one tracked netuid and not for another, and
\* was dispatched for the first only; some other block was dispatched for
\* none.
C13_Witness ==
    /\ \E b \in 0..disp.head : \E n1, n2 \in netuids_to_sync :
         /\ <<"store_metagraph", b, n1>> \in disp.dispatched
         /\ <<"sync_apy_data", b, n1>> \in disp.dispatched
         /\ <<"store_metagraph", b, n2>> \notin disp.dispatched
    /\ \E b \in 0..disp.head : \A d \in disp.dispatched : d[2] # b

\* C14: in the batch task and in the backfill command, the step of an item
\* whose fetch gave no snapshot or an empty neuron set reports "no_data",
\* writes no row, ends in no exception and leaves the error count as it was.
C14_NoDataIsNoError ==
    [][(/\ task.pc = "running"
        /\ Len(task'.items) = Len(task.items) + 1
        /\ task'.items[Len(task'.items)].kind = "no_data")
       => (/\ task'.results[Len(task'.results)] = "no_data"
           /\ db' = db
           /\ task'.pc = "running" /\ task'.exc = NoExc
           /\ task'.errors = task.errors)]_vars

\* The MechanismMetrics rows of the snapshot a sync wrote for a record.
MechanismRows(d, args, rec) ==
    {m \in d.mechs :
        /\ m.block = args.block_number
        /\ \E n \in d.neurons, h \in d.hotkeys :
              /\ n.id = m.neuron /\ n.subnet = args.netuid
              /\ n.hotkey = h.id /\ h.hotkey = rec.hotkey}

\* C15: after a sync of either service on an empty store, the snapshot of
\* every record it synced has no MechanismMetrics row when the record's
\* dividend and incentive are 0 and exactly one when either is positive, and
\* no row of the table has both values 0.
C15_SparseMechanismMetrics ==
    (hist.last.mode # "none" /\ ~hist.last.raised /\ hist.last.dbBefore = EmptyDb)
        => /\ \A i \in Synced(hist.last.mode, hist.last.args) :
                LET rec == hist.last.args.neurons[i]
                IN  Cardinality(MechanismRows(db, hist.last.args, rec)) =
                        IF rec.dividend > 0 \/ rec.incentive > 0 THEN 1 ELSE 0
           /\ \A m \in db.mechs : m.dividend > 0 \/ m.incentive > 0

\* The rows of a store that belong to a hotkey address: its Hotkey row, the
\* Neuron rows of that hotkey, and their NeuronSnapshot and MechanismMetrics
\* rows.
RowsOfHotkey(d, hotkey_address) ==
    LET hks == {h \in d.hotkeys : h.hotkey = hotkey_address}
        nrs == {n \in d.neurons : \E h \in hks : n.hotkey = h.id}
    IN  [hotkeys |-> hks, neurons |-> nrs,
         snapshots |-> {r \in d.snapshots : \E n \in nrs : r.neuron = n.id},
         mechs |-> {r \in d.mechs : \E n \in nrs : r.neuron = n.id}]

\* C16: after an APY-optimized sync that returned, every record of the
\* snapshot that is not a validator has the Hotkey, Neuron, NeuronSnapshot
\* and MechanismMetrics rows it had before the call, unchanged, and (unless a
\* validator record has the same coldkey) the same Coldkey row; and the
\* snapshots count the sync returns is the number of validator records.
C16_NonValidatorSkipped ==
    (hist.last.mode = "apy" /\ ~hist.last.raised) =>
        LET neurons == hist.last.args.neurons
            validators == {i \in DOMAIN neurons : neurons[i].validator_permit}
        IN  /\ \A i \in DOMAIN neurons \ validators :
                 /\ RowsOfHotkey(db, neurons[i].hotkey)
                       = RowsOfHotkey(hist.last.dbBefore, neurons[i].hotkey)
                 /\ (\A j \in validators : neurons[j].coldkey # neurons[i].coldkey)
                       => {r \in db.coldkeys : r.coldkey = neurons[i].coldkey}
                            = {r \in hist.last.dbBefore.coldkeys :
                                  r.coldkey = neurons[i].coldkey}
            /\ hist.last.stats.snapshots = Cardinality(validators)

\* The extrinsic changes a tracked hyperparameter: an AdminUtils call with a
\* netuid, a tracked function and a value.
IsHyperparamChange(extrinsic) ==
    /\ extrinsic.call_module = "AdminUtils" /\ extrinsic.netuid # None
    /\ extrinsic.call_function \in DOMAIN HYPERPARAM_FUNCTION_MAP
    /\ \E i \in DOMAIN extrinsic.call_args :
          /\ extrinsic.call_args[i].name # "netuid"
          /\ extrinsic.call_args[i].value # None
          /\ \A j \in 1..(i - 1) : extrinsic.call_args[j].name = "netuid"

\* The value stored for a key in a SubnetHyperparam table, None when absent.
StoredValue(params, netuid, param_name) ==
    LET rows == {r \in params : r.netuid = netuid /\ r.param_name = param_name}
    IN  IF rows = {} THEN None ELSE (CHOOSE r \in rows : TRUE).value

\* C17: the last enrichment of a hyperparameter change returned, as previous
\* value, the value stored before the call; if the extrinsic succeeded the
\* stored value is now its new value and the history has one more row, (old
\* value, new value); if it failed the stored values and the history are as
\* before. In the history, the old value of every change is the new value of
\* the change before it on the same key.
C17_PreviousValue ==
    /\ IsHyperparamChange(hp.last.extrinsic) =>
         LET ext == hp.last.extrinsic
             netuid == ext.netuid[1]
             param_name == HYPERPARAM_FUNCTION_MAP[ext.call_function]
             new_value == first_value(ext.call_args, 1)
             old_value == StoredValue(hp.last.before.params, netuid, param_name)
         IN  /\ hp.last.enriched
             /\ hp.last.previous_values = {<<param_name, old_value>>}
             /\ ext.success =>
                  /\ StoredValue(hp.params, netuid, param_name) = new_value
                  /\ Len(hp.history) = Len(hp.last.before.history) + 1
                  /\ SubSeq(hp.history, 1, Len(hp.history) - 1) = hp.last.before.history
                  /\ LET row == hp.history[Len(hp.history)]
                     IN  /\ row.netuid = netuid /\ row.param_name = param_name
                         /\ row.old_value = old_value /\ row.new_value = new_value
                  /\ \A r \in hp.params \cup hp.last.before.params :
                        (r.netuid # netuid \/ r.param_name # param_name)
                           => r \in hp.params \cap hp.last.before.params
             /\ ~ext.success =>
                  hp.params = hp.last.before.params /\ hp.history = hp.last.before.history
    /\ \A i, j \in DOMAIN hp.history :
         (/\ j < i
          /\ hp.history[j].netuid = hp.history[i].netuid
          /\ hp.history[j].param_name = hp.history[i].param_name
          /\ \A k \in (j + 1)..(i - 1) :
                hp.history[k].netuid # hp.history[i].netuid
                   \/ hp.history[k].param_name # hp.history[i].param_name)
            => hp.history[i].old_value = hp.history[j].new_value

\* Two successful changes of one key, the second to the value 0, and then a
\* failed change of that key, which returned 0 as the previous value.
C17_Witness ==
    /\ Len(hp.history) = 2
    /\ hp.history[1].netuid = hp.history[2].netuid
    /\ hp.history[1].param_name = hp.history[2].param_name
    /\ hp.history[1].new_value # hp.history[2].new_value
    /\ hp.history[2].new_value = Some(0)
    /\ IsHyperparamChange(hp.last.extrinsic) /\ ~hp.last.extrinsic.success
    /\ hp.last.extrinsic.netuid = Some(hp.history[2].netuid)
    /\ hp.last.previous_values = {<<hp.history[2].param_name, Some(0)>>}
    /\ first_value(hp.last.extrinsic.call_args, 1) = Some(1)

\* C18: _compute_dividend_apy returns exactly 0 whenever alpha_stake <= 0,
\* alpha_out_emission <= 0 or dividend <= 0, in particular whenever
\* alpha_stake = 0; a result other than 0, which is a quotient by
\* alpha_stake, comes only from a positive alpha_stake.
C18_ZeroApyGuard ==
    apy.pc = "done" =>
        /\ (apy.alpha_stake <= 0 \/ apy.alpha_out_emission <= 0 \/ apy.dividend <= 0)
              => apy.result = 0
        /\ apy.alpha_stake = 0 => apy.result = 0
        /\ apy.result # 0 => apy.alpha_stake > 0

\* A call with alpha_stake = 0 and positive dividend and emission.
C18_Witness ==
    /\ apy.pc = "done" /\ apy.alpha_stake = 0
    /\ apy.dividend > 0 /\ apy.alpha_out_emission > 0
    /\ apy.result = 0

\* C19: when the context has exited, the object at the key is the previous
\* content followed by all written bytes in call order (append mode), or
\* exactly the written bytes (store mode); if no byte was written the key is
\* as it was before the context, absent if it was absent.
C19_WriterContent ==
    sw.pc = "closed" =>
        /\ sw.buffer = <<>> /\ ~sw.locked
        /\ IF sw.written = <<>>
           THEN sw.object = sw.previous
           ELSE /\ sw.object.exists
                /\ sw.object.data = IF sw.mode = "append"
                                    THEN sw.previous.data \o sw.written
                                    ELSE sw.written

\* A store-mode writer over an object with content has exited after three
\* writes and at least two flushes that reached storage.
C19_Witness ==
    /\ sw.pc = "closed" /\ sw.mode = "store"
    /\ sw.previous = Object(<<9>>)
    /\ sw.writes = 3 /\ sw.flushes >= 2 /\ Len(sw.written) >= 3
    /\ sw.object.data = sw.written

\* A worker is inside its critical section: its acquire has returned and it
\* has not released.
InCritical(w) == lk.locks[w]._acquired /\ lk.locks[w].pc = "out"

\* C20: no two lock objects on the same key are inside their critical
\* sections at once, the object inside holds the flock of the key's file,
\* which a polling object on that key does not have; an object whose acquire
\* raised TimeoutError is past its deadline, is not acquired and has no open
\* lock file.
C20_MutualExclusion ==
    /\ \A w1, w2 \in Workers :
         (w1 # w2 /\ lk.locks[w1].key = lk.locks[w2].key)
            => ~(InCritical(w1) /\ InCritical(w2))
    /\ \A w \in Workers :
         /\ InCritical(w) => lk.flock[_lock_path(lk.locks[w].key)] = w
         /\ lk.locks[w].pc = "polling"
               => (~lk.locks[w]._acquired /\ lk.flock[_lock_path(lk.locks[w].key)] # w)
         /\ lk.locks[w].raised = "TimeoutError"
               => /\ lk.locks[w].pc = "polling" \/ ~lk.locks[w]._acquired
                  /\ lk.now >= lk.locks[w].deadline
                  /\ lk.locks[w].pc = "out" => ~lk.locks[w]._file

\* One worker is inside its critical section on a key, a second worker's
\* acquire on that key has raised TimeoutError, and a third is polling for
\* the same key.
C20_Witness ==
    \E w1, w2, w3 \in Workers :
        /\ w1 # w2 /\ w2 # w3 /\ w1 # w3
        /\ lk.locks[w1].key = lk.locks[w2].key /\ lk.locks[w2].key = lk.locks[w3].key
        /\ InCritical(w1)
        /\ lk.locks[w2].pc = "out" /\ lk.locks[w2].raised = "TimeoutError"
        /\ ~lk.locks[w2]._acquired
        /\ lk.locks[w3].pc = "polling"

\* The history rows of one key, in the order they were created.
KeyHistory(netuid) == SelectSeq(cu.history, LAMBDA r : r.netuid = netuid)

\* C21: the read of the previous value and its overwrite act as one step
\* under concurrent enrichment: the history rows of a key form one chain
\* (each row's old value is the new value of the row before it, so no two
\* calls observed the same previous value unless nothing changed between),
\* and once no call on the key is running the last new value is the stored
\* value.
C21_AtomicReadOverwrite ==
    \A netuid \in CuNetuids :
        /\ \A i \in 2..Len(KeyHistory(netuid)) :
             KeyHistory(netuid)[i].old_value = KeyHistory(netuid)[i - 1].new_value
        /\ (/\ Len(KeyHistory(netuid)) > 0
            /\ \A p \in Procs : cu.procs[p].pc \in {"got", "saved"} => cu.procs[p].netuid # netuid)
              => get_previous_value(cu, netuid, "tempo")
                   = KeyHistory(netuid)[Len(KeyHistory(netuid))].new_value

\* The result of a probe step is the no-boundary-determinable outcome: the
\* detection is over and its result is no block number.
NoBoundaryDeterminable(d) == d.pc = "done" /\ d.result.kind # "block"

\* C22: wherever a probe can return None (the subnet does not exist), that
\* answer ends the detection with an outcome that is no block number, so
\* not end_block + 1 either; a probe that raises at start_block or inside
\* the bisection leaves the search running.
C22_NoneIsTerminal ==
    /\ (det.pc = "test_end" /\ "none" \in ProbeOutcomes(det.end_block, det.T))
          => NoBoundaryDeterminable(TestEndBody(det, "none"))
    /\ (det.pc = "test_start" /\ "none" \in ProbeOutcomes(det.start_block, det.T))
          => NoBoundaryDeterminable(TestStartBody(det, "none"))
    /\ (det.pc = "search" /\ det.lo < det.hi
          /\ "none" \in ProbeOutcomes((det.lo + det.hi) \div 2, det.T))
          => NoBoundaryDeterminable(BisectBody(det, "none"))
    /\ (det.pc = "test_start" /\ "raise" \in ProbeOutcomes(det.start_block, det.T))
          => TestStartBody(det, "raise").pc = "search"
    /\ (det.pc = "search" /\ det.lo < det.hi
          /\ "raise" \in ProbeOutcomes((det.lo + det.hi) \div 2, det.T))
          => BisectBody(det, "raise").pc = "search"

\* The chain call `call` was made for the epoch query q.
Attempted(q, call) == \E k \in 1..Len(q.calls) : q.calls[k] = call

\* C23: an epoch block classified as modern is recorded as failed only when
\* the legacy query was attempted too (and it is the one that failed); a
\* modern query that fails falls back to neurons_lite.
C23_FailedOnlyAfterLegacy ==
    \A k \in 1..Len(col.queries) :
        (~col.queries[k].is_legacy /\ col.queries[k].raised)
            => Attempted(col.queries[k], "neurons_lite")

\* C24: the delays slept between consecutive attempts grow by one constant
\* factor greater than one: each delay is longer than the one before it, and
\* the ratio of two consecutive delays is the same all along the call.
C24_ExponentialBackoff ==
    /\ \A k \in 1..(Len(retry.sleeps) - 1) : retry.sleeps[k + 1] > retry.sleeps[k]
    /\ \A k \in 1..(Len(retry.sleeps) - 2) :
         retry.sleeps[k + 2] * retry.sleeps[k] = retry.sleeps[k + 1] * retry.sleeps[k + 1]

\* C25: after a completed sync every hotkey the sync processed has exactly
\* one Hotkey row, linked to the Coldkey row of the coldkey the sync
\* observed for it, and no address has two Hotkey rows.
C25_LatestColdkeyWins ==
    /\ \A g, h \in db.hotkeys : g.hotkey = h.hotkey => g = h
    /\ (hist.last.mode # "none" /\ ~hist.last.raised) =>
          \A i \in Synced(hist.last.mode, hist.last.args) :
              \E h \in db.hotkeys, c \in db.coldkeys :
                  /\ h.hotkey = hist.last.args.neurons[i].hotkey
                  /\ h.coldkey = c.id
                  /\ c.coldkey = hist.last.args.neurons[i].coldkey

\* The context of a sync_metagraph call right before its last step, the
\* flush: every step of the transaction body but _flush_hotkey_last_seen.
BeforeFlush(mode, c, args, t) ==
    IF mode = "apy"
    THEN APY_step_dump(
             APY_step_neurons(APY_step_subnet(APY_step_block(c, args), args), args, t),
             args)
    ELSE Full_step_dump(
             Full_step_weights(
                 Full_step_neurons(Full_step_subnet(Full_step_block(c, args), args),
                                   args, t),
                 args),
             args)

\* The context the sync_metagraph call of this step started from: the
\* service object of the task, or a new one.
CallContext ==
    Context(db, seq, IF hist'.last.instance # hist.instance THEN FreshService ELSE svc)

\* The pending set when the flush of this step's call begins.
Pending ==
    BeforeFlush(hist'.last.mode, CallContext, hist'.last.args, now).svc.hotkeys_to_update

\* The Hotkey rows when the flush of this step's call begins.
HotkeysBeforeFlush ==
    BeforeFlush(hist'.last.mode, CallContext, hist'.last.args, now).db.hotkeys

\* This step is a sync_metagraph call that returned.
SyncReturned ==
    /\ hist'.calls = (IF hist'.instance # hist.instance THEN 0 ELSE hist.calls) + 1
    /\ ~hist'.last.raised

C27_FillMissingOnly ==
    [][\A b \in db.blocks :
          \E a \in db'.blocks :
              /\ a.number = b.number
              /\ b.timestamp # 0 => a.timestamp = b.timestamp
              /\ b.dump_started_at # 0 => a.dump_started_at = b.dump_started_at
              /\ b.dump_finished_at # 0 => a.dump_finished_at = b.dump_finished_at]_vars

\* A sync that returned found the block with a null timestamp and filled
\* it, and left dump_started_at, for which it carried another value, as it
\* was.
C27_Witness ==
    /\ hist.last.mode # "none" /\ ~hist.last.raised
    /\ \E a \in db.blocks, b \in hist.last.dbBefore.blocks :
         /\ a.number = b.number /\ a.number = hist.last.args.block_number
         /\ b.timestamp = 0 /\ a.timestamp # 0
         /\ b.dump_started_at # 0 /\ a.dump_started_at = b.dump_started_at
         /\ hist.last.args.started_at # b.dump_started_at

\* C28: while a batch task is between two items, every Coldkey, Hotkey and
\* Neuron its service object caches, and every id in its pending last_seen
\* set, is a row of the store.
C28_CachesReferToRows ==
    (task.kind = "batch" /\ task.pc = "running") =>
        /\ \A a \in Coldkeys :
             svc.coldkey_cache[a] # 0
                => \E r \in db.coldkeys : r.id = svc.coldkey_cache[a] /\ r.coldkey = a
        /\ \A a \in Hotkeys :
             svc.hotkey_cache[a] # 0
                => \E r \in db.hotkeys : r.id = svc.hotkey_cache[a] /\ r.hotkey = a
        /\ \A n \in svc.neuron_cache : \E r \in db.neurons : r.id = n.id
        /\ \A id \in svc.hotkeys_to_update : \E r \in db.hotkeys : r.id = id

\* The positions of the results list that carry the given status.
ResultsWith(status) == {i \in DOMAIN task.results : task.results[i] = status}

C30_SameEpochBlocks ==
    ep.pc = "done" =>
        /\ compute_epoch_blocks(ep.netuid, settings.TEMPO, ep.from_block, ep.to_block)
              = ep.result
        /\ SeqRange(compute_epoch_blocks(ep.netuid, settings.TEMPO,
                                         ep.from_block, ep.to_block))
              = {b \in ep.from_block..ep.to_block :
                    block_index_in_epoch(b, ep.netuid, settings.TEMPO) = 0}
====
